---------------------------- MODULE Spec2Model ----------------------------
(***************************************************************************)
(* State-machine model of the AAVE Fusion demo client:                     *)
(*   src/src/index.ts                      main                            *)
(*   src/src/app/fusion-aave-demo.ts       executeFusionAaveDemo,          *)
(*                                         executeFusionTransaction        *)
(*   src/unnamed/part_000 (sdk/init-sdk)   initializeBiconomySDK           *)
(*   src/src/infrastructure/fund-account.ts ensureSufficientUSDC,          *)
(*                                         fundTestAccount                 *)
(*   src/src/utils/errors.ts               withErrorHandling & helpers     *)
(*   src/src/utils/index.ts (utils/config) loadEnvironment, createConfig   *)
(*                                                                         *)
(* The program is single threaded; every await is one step of the model.   *)
(* Every call to an external service (chain simulator RPC, relay HTTP) has *)
(* its outcome chosen by the environment: it answers, or it throws.        *)
(* Token amounts are raw 6-decimal USDC units, as in the code.             *)
(*                                                                         *)
(* Text is modelled as a sequence of fragments (strings); a.includes(k) is *)
(* "some fragment of a contains keyword k" (operator Includes).            *)
(***************************************************************************)
EXTENDS Integers, Sequences, FiniteSets, TLC

(***************************************************************************)
(* Bounds of the model (not program constants).                            *)
(***************************************************************************)
\* transient failures (a throwing RPC/HTTP call, a failed receipt) per run
MaxFaults == 2
\* balance changes made by an actor other than this program, per run
MaxSpends == 1

\* foreign spends while ensureSufficientUSDC is checked on its own: one
\* before each of its two re-reads
MaxEnsureSpends == 2

(***************************************************************************)
(* Program constants.                                                      *)
(***************************************************************************)
\* withErrorHandling: for (let attempt = 1; attempt <= 3; attempt++)
MaxAttempts == 3
\* withErrorHandling: Math.min(1000 * Math.pow(2, attempt - 1), 5000)
BaseDelay == 1000
DelayCeiling == 5000
\* executeFusionAaveDemo: targetUSDCAmount = BigInt('100000000')
TargetUSDC == 100000000
\* executeFusionAaveDemo: finalUsdcBalance.balance < BigInt('20000000')
MinDemoUSDC == 20000000
\* fundTestAccount: USDC_WHALES has five entries
NumWhales == 5
\* createConfig: env.ANVIL_CHAIN_ID ? Number(env.ANVIL_CHAIN_ID) : 1
DefaultChainId == 1

Min(a, b) == IF a <= b THEN a ELSE b

RECURSIVE Pow2(_)
Pow2(n) == IF n = 0 THEN 1 ELSE 2 * Pow2(n - 1)

(***************************************************************************)
(* Thrown values.  kind "Error" is a JS Error instance (name = its class); *)
(* kind "object" is a plain object thrown by a client library, carrying    *)
(* some of the fields extractErrorMessage / extractErrorDetails look at.   *)
(***************************************************************************)
NoErr == [kind |-> "none", name |-> "none", message |-> <<>>, fields |-> {}]

MkError(n, msg) == [kind |-> "Error", name |-> n, message |-> msg, fields |-> {}]

\* types/index.ts: class InfrastructureError extends BiconomyError
InfrastructureError(msg) == MkError("InfrastructureError", msg)

\* types/index.ts: class TransactionError extends BiconomyError
TransactionError(msg) == MkError("TransactionError", msg)

\* new Error(msg)
PlainError(msg) == MkError("Error", msg)

(***************************************************************************)
(* String.prototype.includes on fragment sequences: which of the keywords  *)
(* createFriendlyErrorMessage looks for occur inside each fragment the     *)
(* program can put into a message.                                         *)
(***************************************************************************)
KeywordsOf(frag) ==
  CASE frag = "ECONNREFUSED"                               -> {"ECONNREFUSED"}
    [] frag = "network timeout"                            -> {"network"}
    [] frag = "execution reverted"                         -> {"revert", "execution reverted"}
    [] frag = "out of gas"                                 -> {"gas", "out of gas"}
    [] frag = "unauthorized"                               -> {"unauthorized"}
    [] frag = "rate limit exceeded"                        -> {"rate limit"}
    [] frag = "anvil_impersonateAccount failed"            -> {"anvil_impersonateAccount"}
    [] frag = "  * Verify network connectivity"            -> {"network"}
    [] frag = "  * Increase gas limit in transaction"      -> {"gas"}
    [] frag = "  * Check if account has sufficient ETH for gas" -> {"gas"}
    [] OTHER                                               -> {}

Includes(msg, kw) == \E i \in 1..Len(msg) : kw \in KeywordsOf(msg[i])

(***************************************************************************)
(* errors.ts: extractErrorMessage / extractErrorDetails.                   *)
(* An object's field f carries the text DiagText[f].                       *)
(***************************************************************************)
DiagFields == {"error.errors", "message", "error.message", "errors", "reason", "data"}

DiagText ==
  [f \in DiagFields |->
     CASE f = "error.errors"  -> "relay: error.errors joined"
       [] f = "message"       -> "relay: message"
       [] f = "error.message" -> "relay: error.message"
       [] f = "errors"        -> "relay: errors joined"
       [] f = "reason"        -> "relay: reason"
       [] f = "data"          -> "relay: JSON of data"]

\* which diagnostic fields a failed receipt carries: none, any single one, or
\* all of them at once
DiagFieldSets == {{}} \cup {{f} : f \in DiagFields} \cup {DiagFields}

ThrownObject(F) == [kind |-> "object", name |-> "none", message |-> <<>>, fields |-> F]

extractErrorMessage(error) ==
  IF error.kind \in {"Error", "string"} THEN error.message
  ELSE IF error.kind = "object" THEN
    IF "reason" \in error.fields THEN <<DiagText["reason"]>>
    ELSE IF "message" \in error.fields THEN <<DiagText["message"]>>
    ELSE IF "error.message" \in error.fields THEN <<DiagText["error.message"]>>
    ELSE <<"Unknown error occurred">>
  ELSE <<"Unknown error occurred">>

\* `obj` is a set of present diagnostic fields (a receipt or a thrown object)
extractErrorDetails(obj) ==
  IF "error.errors" \in obj THEN <<DiagText["error.errors"]>>
  ELSE IF "message" \in obj THEN <<DiagText["message"]>>
  ELSE IF "error.message" \in obj THEN <<DiagText["error.message"]>>
  ELSE IF "errors" \in obj THEN <<DiagText["errors"]>>
  ELSE IF "reason" \in obj THEN <<DiagText["reason"]>>
  ELSE IF "data" \in obj THEN <<DiagText["data"]>>
  ELSE <<"JSON of the whole object">>

(***************************************************************************)
(* errors.ts: createFriendlyErrorMessage.                                  *)
(***************************************************************************)
NetworkSuggestions ==
  << "  * Check if Anvil is running: npm run infra:anvil",
     "  * Check if MEE Node is running: npm run infra:mee",
     "  * Verify network connectivity" >>

RevertSuggestions ==
  << "  * Check if contracts are deployed on the fork",
     "  * Verify transaction parameters",
     "  * Check account balance and allowances" >>

GasSuggestions ==
  << "  * Increase gas limit in transaction",
     "  * Check if account has sufficient ETH for gas" >>

AuthSuggestions ==
  << "  * Check private key configuration",
     "  * Verify account permissions" >>

RateLimitSuggestions ==
  << "  * Wait before retrying",
     "  * Consider using a different RPC provider" >>

\* mutant: no keyword is looked for
createFriendlyErrorMessage_NoSuggestions(error) ==
  [message |-> extractErrorMessage(error), suggestions |-> <<>>]

createFriendlyErrorMessage(error) ==
  LET message == extractErrorMessage(error)
      s1 == IF Includes(message, "ECONNREFUSED") \/ Includes(message, "network")
            THEN NetworkSuggestions ELSE <<>>
      s2 == IF Includes(message, "revert") \/ Includes(message, "execution reverted")
            THEN RevertSuggestions ELSE <<>>
      s3 == IF Includes(message, "gas") \/ Includes(message, "out of gas")
            THEN GasSuggestions ELSE <<>>
      s4 == IF Includes(message, "unauthorized") \/ Includes(message, "access denied")
            THEN AuthSuggestions ELSE <<>>
      s5 == IF Includes(message, "rate limit") \/ Includes(message, "too many requests")
            THEN RateLimitSuggestions ELSE <<>>
  IN [message |-> message, suggestions |-> s1 \o s2 \o s3 \o s4 \o s5]

(***************************************************************************)
(* errors.ts: withErrorHandling, the parts that are pure.                  *)
(***************************************************************************)
Levels == {"demo", "init", "ensure", "fund"}

\* the `context` argument of each withErrorHandling(...) call
ContextName(l) ==
  CASE l = "demo"   -> "AAVE Fusion Demo"
    [] l = "init"   -> "SDK Initialization"
    [] l = "ensure" -> "USDC Balance Assurance"
    [] l = "fund"   -> "USDC Account Funding"

\* `[${context}] `
ContextOf(l) == "[" \o ContextName(l) \o "] "

\* mutant: no back-off, the same delay before every retry
RetryDelay_Constant(attempt) == BaseDelay

\* const delay = Math.min(1000 * Math.pow(2, attempt - 1), 5000)
RetryDelay(attempt) == Min(BaseDelay * Pow2(attempt - 1), DelayCeiling)

\* mutant: the wrapper rethrows an error of the class it caught
WrappedError_KeepsClass(l, error) ==
  MkError(IF error.kind = "Error" THEN error.name ELSE "Error",
          <<ContextOf(l)>> \o createFriendlyErrorMessage(error).message)

\* lastError = new Error(`[${context}] ${friendlyError.message}`)
WrappedError(l, error) ==
  PlainError(<<ContextOf(l)>> \o createFriendlyErrorMessage(error).message)

\* lastError.message += '\n\nSuggestions:\n' + suggestions...   (last attempt)
FinalError(l, error) ==
  LET f == createFriendlyErrorMessage(error)
      e == WrappedError(l, error)
  IN IF Len(f.suggestions) > 0
     THEN [e EXCEPT !.message = @ \o <<"Suggestions:">> \o f.suggestions]
     ELSE e

(***************************************************************************)
(* utils/config: loadEnvironment and createConfig.                         *)
(* An environment variable is modelled by the class of its value:          *)
(*   "missing"   not set (undefined)                                       *)
(*   "empty"     set to ""                (falsy, but not nullish)         *)
(*   "invalid"   rejected by the validator of that variable                *)
(*               (not a URL / not a 64-hex key / "abc" or "0" or "-1")     *)
(*   "fraction"  a positive non-integer number such as "1.5"               *)
(*   "valid"     accepted ("http://localhost:8545", "8545", "1", "info")   *)
(***************************************************************************)
EnvDomain ==
  [ ETH_MAINNET_RPC_URL : {"missing", "empty", "invalid", "valid"},
    TEST_PRIVATE_KEY    : {"missing", "empty", "invalid", "valid"},
    MEE_NODE_URL        : {"missing", "empty", "invalid", "valid"},
    ANVIL_RPC_URL       : {"missing", "empty", "invalid", "valid"},
    ANVIL_PORT          : {"missing", "invalid", "fraction", "valid"},
    ANVIL_CHAIN_ID      : {"missing", "invalid", "fraction", "valid"},
    ANVIL_BLOCK_TIME    : {"missing", "invalid", "valid"},
    LOG_LEVEL           : {"missing", "invalid", "valid"} ]

RequiredVars == {"ETH_MAINNET_RPC_URL", "TEST_PRIVATE_KEY"}

OptionalVars == {"MEE_NODE_URL", "ANVIL_RPC_URL", "ANVIL_PORT", "ANVIL_CHAIN_ID",
                 "ANVIL_BLOCK_TIME", "LOG_LEVEL"}

\* JS truthiness of process.env.X
Truthy(v) == v \notin {"missing", "empty"}

\* validation.ts: isValidUrl (new URL(url) does not throw)
isValidUrl(v) == v = "valid"

\* validation.ts: isValidPrivateKey (/^[a-fA-F0-9]{64}$/ after an optional 0x)
isValidPrivateKey(v) == v = "valid"

\* isNaN(Number(x)) || Number(x) <= 0
NotPositiveNumber(v) == v = "invalid"

\* mutant: the fork URL is not looked at
RequiredErrors_KeyOnly(e) ==
  IF ~Truthy(e.TEST_PRIVATE_KEY) THEN <<"TEST_PRIVATE_KEY is required">>
  ELSE IF ~isValidPrivateKey(e.TEST_PRIVATE_KEY)
       THEN <<"TEST_PRIVATE_KEY must be a valid private key">> ELSE <<>>

\* "Validate required fields"
RequiredErrors(e) ==
     (IF ~Truthy(e.ETH_MAINNET_RPC_URL) THEN <<"ETH_MAINNET_RPC_URL is required">>
      ELSE IF ~isValidUrl(e.ETH_MAINNET_RPC_URL)
           THEN <<"ETH_MAINNET_RPC_URL must be a valid URL">> ELSE <<>>)
  \o (IF ~Truthy(e.TEST_PRIVATE_KEY) THEN <<"TEST_PRIVATE_KEY is required">>
      ELSE IF ~isValidPrivateKey(e.TEST_PRIVATE_KEY)
           THEN <<"TEST_PRIVATE_KEY must be a valid private key">> ELSE <<>>)

\* "Validate optional fields" and "Validate Anvil configuration"
OptionalErrors(e) ==
     (IF Truthy(e.MEE_NODE_URL) /\ ~isValidUrl(e.MEE_NODE_URL)
      THEN <<"MEE_NODE_URL must be a valid URL">> ELSE <<>>)
  \o (IF Truthy(e.ANVIL_RPC_URL) /\ ~isValidUrl(e.ANVIL_RPC_URL)
      THEN <<"ANVIL_RPC_URL must be a valid URL">> ELSE <<>>)
  \o (IF Truthy(e.ANVIL_PORT) /\ NotPositiveNumber(e.ANVIL_PORT)
      THEN <<"ANVIL_PORT must be a positive number">> ELSE <<>>)
  \o (IF Truthy(e.ANVIL_CHAIN_ID) /\ NotPositiveNumber(e.ANVIL_CHAIN_ID)
      THEN <<"ANVIL_CHAIN_ID must be a positive number">> ELSE <<>>)
  \o (IF Truthy(e.ANVIL_BLOCK_TIME) /\ NotPositiveNumber(e.ANVIL_BLOCK_TIME)
      THEN <<"ANVIL_BLOCK_TIME must be a positive number">> ELSE <<>>)

\* mutant: validation stops at the first problem it finds
loadEnvironmentErrors_FirstOnly(e) ==
  LET all == RequiredErrors(e) \o OptionalErrors(e)
  IN IF Len(all) > 0 THEN <<all[1]>> ELSE <<>>

\* the entries loadEnvironment pushes, in the order it pushes them
loadEnvironmentErrors(e) == RequiredErrors(e) \o OptionalErrors(e)

\* loadEnvironment: throws one Error listing every entry, or returns env
loadEnvironment(e) ==
  LET errors == loadEnvironmentErrors(e)
  IN IF Len(errors) > 0
     THEN [ok |-> FALSE,
           error |-> PlainError(<<"Environment validation failed:">> \o errors)]
     ELSE [ok |-> TRUE, error |-> NoErr]

\* createConfig, after loadEnvironment returned: the derived settings
\* (as value classes) and the second round of checks
derivedConfig(e) ==
  [ meeNodeUrl     |-> IF e.MEE_NODE_URL = "missing" THEN "valid" ELSE e.MEE_NODE_URL,
    anvilRpcUrl    |-> IF e.ANVIL_RPC_URL # "missing" THEN e.ANVIL_RPC_URL
                       ELSE IF e.ANVIL_PORT = "fraction" THEN "invalid" ELSE "valid",
    chainIdClass   |-> IF Truthy(e.ANVIL_CHAIN_ID) THEN e.ANVIL_CHAIN_ID ELSE "valid",
    chainId        |-> DefaultChainId,
    testPrivateKey |-> e.TEST_PRIVATE_KEY ]

createConfigErrors(c) ==
     (IF ~isValidUrl(c.meeNodeUrl) THEN <<"Invalid MEE Node URL">> ELSE <<>>)
  \o (IF ~isValidUrl(c.anvilRpcUrl) THEN <<"Invalid Anvil RPC URL">> ELSE <<>>)
  \o (IF c.chainIdClass # "valid" THEN <<"Chain ID must be a positive integer">> ELSE <<>>)
  \o (IF ~isValidPrivateKey(c.testPrivateKey) THEN <<"Invalid private key format">> ELSE <<>>)

createConfig(e) ==
  LET env == loadEnvironment(e)
      c == derivedConfig(e)
      errors == createConfigErrors(c)
  IN IF ~env.ok THEN [ok |-> FALSE, error |-> env.error, config |-> c]
     ELSE IF Len(errors) > 0
     THEN [ok |-> FALSE,
           error |-> PlainError(<<"Configuration validation failed:">> \o errors),
           config |-> c]
     ELSE [ok |-> TRUE, error |-> NoErr, config |-> c]

(***************************************************************************)
(* The program's state.                                                    *)
(***************************************************************************)
VARIABLES
  pc,           \* position of the single thread of control
  exc,          \* the value being thrown (NoErr when nothing is in flight)
  wrap,         \* per withErrorHandling closure: attempt, lastError, delays slept
  env,          \* process.env (value classes)
  netChainId,   \* chain id the fork reports to provider.getNetwork()
  relayOk,      \* whether GET <meeNodeUrl>/info answers with an OK status
  walletUsdc,   \* on-chain USDC balance of the session wallet (sdk.eoaAddress)
  walletAUsdc,  \* on-chain aUSDC balance of the session wallet
  whaleBal,     \* on-chain USDC balance of each entry of USDC_WHALES
  impersonated, \* donors the chain simulator currently lets anyone sign for
  faults,       \* transient failures injected so far (bounded by MaxFaults)
  spends,       \* foreign balance changes so far (bounded by MaxSpends)
  sdk,          \* locals of the initializeBiconomySDK body
  ens,          \* locals of the ensureSufficientUSDC body
  fund,         \* locals of the fundTestAccount body
  demo,         \* locals of the executeFusionAaveDemo body
  tx,           \* locals of executeFusionTransaction
  relay,        \* requests the relay has received in this run
  exitCode      \* process.exit code (-1 while running)

vars == << pc, exc, wrap, env, netChainId, relayOk, walletUsdc, walletAUsdc,
           whaleBal, impersonated, faults, spends, sdk, ens, fund, demo, tx,
           relay, exitCode >>

worldVars == << env, netChainId, relayOk >>
chainVars == << walletUsdc, walletAUsdc, whaleBal, impersonated >>
localVars == << sdk, ens, fund, demo, tx >>

Whales == 1..NumWhales

(***************************************************************************)
(* Inputs: initial chain state and the failures the environment can raise. *)
(***************************************************************************)
\* a well funded donor (1 000 USDC)
RichWhale == 1000 * 1000000

\* initial on-chain balances: <<session wallet, USDC_WHALES[1..5]>>
ChainInits == { <<99999950,  <<30, 80, 150, RichWhale, RichWhale>> >>,
                <<100000001, <<30, 80, 150, RichWhale, RichWhale>> >>,
                <<99999950,  <<30, 30, 30, 30, 30>> >> }

\* what a foreign spender may leave in the wallet when it moves funds out
SpendLeaves == {101, 30000000}

\* relay fee of a fused transaction, charged in USDC
FusionFees == {500000}

\* chain ids the fork may report
ChainIds == {1, 31337}

ValidEnv ==
  [ ETH_MAINNET_RPC_URL |-> "valid", TEST_PRIVATE_KEY |-> "valid",
    MEE_NODE_URL |-> "missing", ANVIL_RPC_URL |-> "missing",
    ANVIL_PORT |-> "missing", ANVIL_CHAIN_ID |-> "missing",
    ANVIL_BLOCK_TIME |-> "missing", LOG_LEVEL |-> "missing" ]

\* environments of the full-run specification
RunEnvs == { ValidEnv,
             [ValidEnv EXCEPT !.TEST_PRIVATE_KEY = "missing"],
             [ValidEnv EXCEPT !.MEE_NODE_URL = "empty"] }

\* Error instances thrown by a failing RPC / HTTP call
ExtErrors == { PlainError(<<"ECONNREFUSED">>) }

\* what a failing anvil_impersonateAccount request may throw
ImpersonateErrors == ExtErrors \cup { PlainError(<<"anvil_impersonateAccount failed">>) }

\* what a failing relay-client call may throw: an Error, or the plain object
\* { error: { errors: [...] } } of the relay client
RelayErrors == ExtErrors \cup { ThrownObject({"error.errors"}) }

ReceiptStatuses == {"SUCCESS", "MINING", "MINED_SUCCESS", "MINED_FAIL", "FAILED", "PENDING"}

(***************************************************************************)
(* Local-variable records, as they are when a body starts.                 *)
(***************************************************************************)
\* bodies: executions of the wrapped function in this run, over all calls;
\* result: the invocation whose value the closure returned (0: none), kept
\* where the closure is studied on its own
IdleWrap == [attempt |-> 0, lastError |-> NoErr, delays |-> <<>>, invocations |-> 0,
             bodies |-> 0, result |-> 0]

NoSnapshot == [usdc |-> -1, aUsdc |-> -1]

\* {} as BalanceSnapshot
EmptySnapshot == [usdc |-> -2, aUsdc |-> -2]

NoResult == [hash |-> "none", success |-> FALSE, supplyAmount |-> -1,
             aTokensReceived |-> -1, beforeBalance |-> NoSnapshot,
             afterBalance |-> NoSnapshot]

NoReceipt == [transactionStatus |-> "none", fields |-> {}]

SdkFresh == [config |-> derivedConfig(ValidEnv), parts |-> {}, ready |-> FALSE]

NoEntry == [wallet |-> -1, whales |-> <<>>, impersonated |-> {}, spends |-> -1]

EnsFresh ==
  [ currentBalance |-> -1, newBalance |-> -1, finalBalance |-> -1,
    stage |-> "none",      \* which fundTestAccount call is running
    lastRead |-> -1,       \* last wallet balance read during this body
    callsFirst |-> 0,      \* calls of fundTestAccount(sdk, amountToFund)
    callsSecond |-> 0,     \* calls of fundTestAccount(sdk, targetAmount)
    requests |-> 0,        \* chain-simulator requests issued during this body
    entry |-> NoEntry ]    \* chain state when the body started

\* the ensureSufficientUSDC body about to run
EnsAtEntry ==
  [EnsFresh EXCEPT !.entry = [wallet |-> walletUsdc, whales |-> whaleBal,
                              impersonated |-> impersonated, spends |-> spends]]

\* a fundTestAccount body about to run with `amount` (xfers: transfers issued
\* so far by the enclosing wrapper call)
FundFresh(amt, xf) ==
  [ amount |-> amt, USDC_WHALE |-> 1, whaleFound |-> FALSE, scanIdx |-> 1,
    receipt |-> "none", newBalance |-> -1,
    scan |-> <<>>,         \* result of each donor balance read: -1 = threw
    reqLog |-> <<>>,       \* control/transfer requests of this body, in order
    xfers |-> xf ]

FundIdle == FundFresh(-1, 0)

DemoFresh == [beforeBalance |-> NoSnapshot, supplyAmount |-> -1,
              transactionResult |-> NoResult,
              snapshots |-> 0]   \* captureBalanceSnapshot calls that returned

TxFresh == [instructions |-> <<>>, quoted |-> FALSE, hash |-> "none",
            receipt |-> NoReceipt,
            sent |-> <<>>]   \* requests made to the relay by this call, in order

RelayFresh == [quotes |-> <<>>, executes |-> 0]

Init ==
  /\ pc = "main"
  /\ exc = NoErr
  /\ wrap = [l \in Levels |-> IdleWrap]
  /\ env \in RunEnvs
  /\ netChainId \in ChainIds
  /\ relayOk \in BOOLEAN
  /\ \E c \in ChainInits : walletUsdc = c[1] /\ whaleBal = c[2]
  /\ walletAUsdc = 0
  /\ impersonated = {}
  /\ faults = 0
  /\ spends = 0
  /\ sdk = SdkFresh
  /\ ens = EnsFresh
  /\ fund = FundIdle
  /\ demo = DemoFresh
  /\ tx = TxFresh
  /\ relay = RelayFresh
  /\ exitCode = -1

(***************************************************************************)
(* Control-flow helpers.                                                   *)
(***************************************************************************)
\* first statement of the function each withErrorHandling closure wraps
BodyStart(l) ==
  CASE l = "demo"   -> "demo_start"
    [] l = "init"   -> "init_config"
    [] l = "ensure" -> "ens_read1"
    [] l = "fund"   -> "fund_scan"

\* where the catch clause of closure l runs
CatchPc(l) ==
  CASE l = "demo"   -> "catch_demo"
    [] l = "init"   -> "catch_init"
    [] l = "ensure" -> "catch_ensure"
    [] l = "fund"   -> "catch_fund"

\* who receives what closure l throws: the closure around its caller
\* (main's try/catch for the demo)
CallerCatch(l) ==
  CASE l = "demo"   -> "catch_main"
    [] l = "init"   -> "catch_demo"
    [] l = "ensure" -> "catch_demo"
    [] l = "fund"   -> "catch_ensure"

\* a call of the closure: attempt = 1, first invocation of fn
Enter(w, l) ==
  [w EXCEPT ![l] = [attempt |-> 1, lastError |-> NoErr, delays |-> <<>>,
                    invocations |-> 1, bodies |-> @.bodies + 1, result |-> 0]]

\* return await fn(...args): the closure is left
Leave(w, l) == [w EXCEPT ![l] = [IdleWrap EXCEPT !.bodies = w[l].bodies]]

Throw(target, e) == pc' = target /\ exc' = e

NoThrow(target) == pc' = target /\ exc' = NoErr

\* an external call fails: it throws one of `errs`
Fault(target, errs) ==
  /\ faults < MaxFaults
  /\ faults' = faults + 1
  /\ \E e \in errs : Throw(target, e)

\* formatTokenAmount(amount, 6, 'USDC'): the amount in USDC printed with 2
\* decimals from 1000 USDC on, 4 decimals from 1 USDC on, 6 decimals below;
\* the text is the rounded number of units of the last printed decimal
formatTokenAmount(amount) ==
  LET decimals == IF amount >= 1000 * 1000000 THEN 2
                  ELSE IF amount >= 1000000 THEN 4 ELSE 6
      unit     == IF decimals = 2 THEN 10000 ELSE IF decimals = 4 THEN 100 ELSE 1
      rounded  == (amount + unit \div 2) \div unit
  IN ToString(rounded) \o "e-" \o ToString(decimals) \o " USDC"

\* captureBalanceSnapshot: the token balances it returns
Snapshot == [usdc |-> walletUsdc, aUsdc |-> walletAUsdc]

\* mutant: the first check compares with the floor of the demo
Sufficient_Floor(balance, target) == balance >= MinDemoUSDC

\* mutant: the first check lets every balance through
Sufficient_Always(balance, target) == TRUE

\* mutant: the first check is strict
Sufficient_Strict(balance, target) == balance > target

\* ensureSufficientUSDC: if (currentBalance >= targetAmount) return
Sufficient(balance, target) == balance >= target

\* mutant: every re-read counts as short
Short_Always(balance, target) == TRUE

\* ensureSufficientUSDC: if (newBalance < targetAmount) / (finalBalance < targetAmount)
Short(balance, target) == balance < target

\* mutant: any donor holding something is taken
WhaleQualifies_Any(balance, amt) == balance > 0

\* fundTestAccount: if (balance >= amount) { USDC_WHALE = whale; ... break }
WhaleQualifies(balance, amt) == balance >= amt

\* mutant: the floor is applied to the halved amount
BelowFloor_Halved(balance) == balance \div 2 < MinDemoUSDC

\* executeFusionAaveDemo: finalUsdcBalance.balance < BigInt('20000000')
BelowFloor(balance) == balance < MinDemoUSDC

\* mutant: the half is rounded up
HalfOf_Ceil(balance) == (balance + 1) \div 2

\* executeFusionAaveDemo: finalUsdcBalance.balance / 2n
HalfOf(balance) == balance \div 2

(***************************************************************************)
(* index.ts: main, and the start of executeFusionAaveDemo.                 *)
(***************************************************************************)
\* main(): await executeFusionAaveDemo()
MainStart ==
  /\ pc = "main"
  /\ NoThrow("demo_start")
  /\ wrap' = Enter(wrap, "demo")
  /\ UNCHANGED << worldVars, chainVars, faults, spends, localVars, relay, exitCode >>

\* demo body: const sdk = await initializeBiconomySDK()
DemoStart ==
  /\ pc = "demo_start"
  /\ NoThrow("init_config")
  /\ wrap' = Enter(wrap, "init")
  /\ sdk' = SdkFresh
  /\ ens' = EnsFresh
  /\ fund' = FundIdle
  /\ demo' = DemoFresh
  /\ tx' = TxFresh
  /\ UNCHANGED << worldVars, chainVars, faults, spends, relay, exitCode >>

(***************************************************************************)
(* sdk/init-sdk: the body of initializeBiconomySDK.                        *)
(***************************************************************************)
\* mutant: initialization goes on with a configuration that failed validation
InitCreateConfig_IgnoreErrors ==
  /\ pc = "init_config"
  /\ NoThrow("init_network")
  /\ sdk' = [SdkFresh EXCEPT !.config = createConfig(env).config]
  /\ UNCHANGED << wrap, worldVars, chainVars, faults, spends, ens, fund, demo, tx,
                  relay, exitCode >>

\* const config = createConfig(); new ethers.JsonRpcProvider(config.anvilRpcUrl)
InitCreateConfig ==
  /\ pc = "init_config"
  /\ LET r == createConfig(env)
     IN IF r.ok
        THEN /\ NoThrow("init_network")
             /\ sdk' = [SdkFresh EXCEPT !.config = r.config, !.parts = {"provider"}]
        ELSE /\ Throw("catch_init", r.error)
             /\ sdk' = SdkFresh
  /\ UNCHANGED << wrap, worldVars, chainVars, faults, spends, ens, fund, demo, tx,
                  relay, exitCode >>

\* mutant: the signer is created whatever network the chain reports
InitGetNetwork_NoCheck ==
  /\ pc = "init_network"
  /\ NoThrow("init_balance")
  /\ sdk' = [sdk EXCEPT !.parts = @ \cup {"signer"}]
  /\ UNCHANGED << wrap, worldVars, chainVars, faults, spends, ens, fund, demo, tx, relay,
                  exitCode >>

\* provider.getNetwork(), the chain-id check, new ethers.Wallet(...)
InitGetNetwork ==
  /\ pc = "init_network"
  /\ \/ /\ Fault("catch_init", ExtErrors)
        /\ UNCHANGED sdk
     \/ /\ netChainId # sdk.config.chainId
        /\ Throw("catch_init", InfrastructureError(<<"Chain ID mismatch">>))
        /\ UNCHANGED << sdk, faults >>
     \/ /\ netChainId = sdk.config.chainId
        /\ NoThrow("init_balance")
        /\ sdk' = [sdk EXCEPT !.parts = @ \cup {"signer"}]
        /\ UNCHANGED faults
  /\ UNCHANGED << wrap, worldVars, chainVars, spends, ens, fund, demo, tx, relay,
                  exitCode >>

\* provider.getBalance(signer.address)
InitGetBalance ==
  /\ pc = "init_balance"
  /\ \/ Fault("catch_init", ExtErrors)
     \/ NoThrow("init_account") /\ UNCHANGED faults
  /\ UNCHANGED << wrap, worldVars, chainVars, spends, localVars, relay, exitCode >>

\* toMultichainNexusAccount(...)
InitCreateAccount ==
  /\ pc = "init_account"
  /\ \/ Fault("catch_init", ExtErrors) /\ UNCHANGED sdk
     \/ /\ NoThrow("init_fetch")
        /\ sdk' = [sdk EXCEPT !.parts = @ \cup {"orchestrator"}]
        /\ UNCHANGED faults
  /\ UNCHANGED << wrap, worldVars, chainVars, spends, ens, fund, demo, tx, relay,
                  exitCode >>

\* fetch(`${config.meeNodeUrl}/info`), response.ok, response.json()
InitFetchInfo ==
  /\ pc = "init_fetch"
  /\ \/ Fault("catch_init", ExtErrors)
     \/ /\ ~relayOk
        /\ Throw("catch_init", InfrastructureError(<<"MEE Node is not accessible">>))
        /\ UNCHANGED faults
     \/ /\ relayOk
        /\ NoThrow("init_mee")
        /\ UNCHANGED faults
  /\ UNCHANGED << wrap, worldVars, chainVars, spends, localVars, relay, exitCode >>

\* createMeeClient(...)
InitCreateMeeClient ==
  /\ pc = "init_mee"
  /\ \/ Fault("catch_init", ExtErrors) /\ UNCHANGED sdk
     \/ /\ NoThrow("init_usdc")
        /\ sdk' = [sdk EXCEPT !.parts = @ \cup {"meeClient"}]
        /\ UNCHANGED faults
  /\ UNCHANGED << wrap, worldVars, chainVars, spends, ens, fund, demo, tx, relay,
                  exitCode >>

\* usdcContract.balanceOf(signer.address); return sdkContext
InitCheckUsdc ==
  /\ pc = "init_usdc"
  /\ \/ Fault("catch_init", ExtErrors) /\ UNCHANGED << sdk, wrap >>
     \/ /\ NoThrow("demo_snap1")
        /\ sdk' = [sdk EXCEPT !.ready = TRUE]
        /\ wrap' = Leave(wrap, "init")
        /\ UNCHANGED faults
  /\ UNCHANGED << worldVars, chainVars, spends, ens, fund, demo, tx, relay, exitCode >>

(***************************************************************************)
(* executeFusionAaveDemo: first snapshot and the call of                   *)
(* ensureSufficientUSDC(sdk, targetUSDCAmount).                            *)
(***************************************************************************)
DemoSnapshot1 ==
  /\ pc = "demo_snap1"
  /\ \/ /\ Fault("catch_demo", ExtErrors)
        /\ UNCHANGED << demo, ens, wrap >>
     \/ /\ NoThrow("ens_read1")
        /\ demo' = [demo EXCEPT !.beforeBalance = Snapshot, !.snapshots = 1]
        /\ wrap' = Enter(wrap, "ensure")
        /\ ens' = EnsAtEntry
        /\ UNCHANGED faults
  /\ UNCHANGED << worldVars, chainVars, spends, sdk, fund, tx, relay, exitCode >>

(***************************************************************************)
(* fund-account.ts: the body of ensureSufficientUSDC.                      *)
(***************************************************************************)
\* mutant: every call of fundTestAccount asks for the whole target
CallFund_WholeTarget(amt) ==
  /\ NoThrow("fund_scan")
  /\ wrap' = Enter(wrap, "fund")
  /\ fund' = FundFresh(TargetUSDC, 0)

\* the call fundTestAccount(sdk, amt) made by the ensure body
CallFund(amt) ==
  /\ NoThrow("fund_scan")
  /\ wrap' = Enter(wrap, "fund")
  /\ fund' = FundFresh(amt, 0)

\* ensureSufficientUSDC returns to the demo body
EnsureReturns ==
  /\ NoThrow("demo_snap2")
  /\ wrap' = Leave(wrap, "ensure")

\* currentBalance = await usdcContract.balanceOf(sdk.eoaAddress); the no-op
\* return, or fundTestAccount(sdk, targetAmount - currentBalance)
EnsReadCurrent ==
  /\ pc = "ens_read1"
  /\ \/ /\ Fault("catch_ensure", ExtErrors)
        /\ UNCHANGED << ens, fund, wrap >>
     \/ /\ UNCHANGED faults
        /\ IF Sufficient(walletUsdc, TargetUSDC)
           THEN /\ ens' = [ens EXCEPT !.currentBalance = walletUsdc,
                                      !.lastRead = walletUsdc]
                /\ EnsureReturns
                /\ UNCHANGED fund
           ELSE /\ CallFund(TargetUSDC - walletUsdc)
                /\ ens' = [ens EXCEPT !.currentBalance = walletUsdc,
                                      !.lastRead = walletUsdc,
                                      !.stage = "first",
                                      !.callsFirst = @ + 1]
  /\ UNCHANGED << worldVars, chainVars, spends, sdk, demo, tx, relay, exitCode >>

\* newBalance = await usdcContract.balanceOf(...); success, or the fallback
\* fundTestAccount(sdk, targetAmount)
EnsReadNew ==
  /\ pc = "ens_read2"
  /\ \/ /\ Fault("catch_ensure", ExtErrors)
        /\ UNCHANGED << ens, fund, wrap >>
     \/ /\ UNCHANGED faults
        /\ IF Short(walletUsdc, TargetUSDC)
           THEN /\ CallFund(TargetUSDC)
                /\ ens' = [ens EXCEPT !.newBalance = walletUsdc,
                                      !.lastRead = walletUsdc,
                                      !.stage = "second",
                                      !.callsSecond = @ + 1]
           ELSE /\ ens' = [ens EXCEPT !.newBalance = walletUsdc,
                                      !.lastRead = walletUsdc]
                /\ EnsureReturns
                /\ UNCHANGED fund
  /\ UNCHANGED << worldVars, chainVars, spends, sdk, demo, tx, relay, exitCode >>

\* finalBalance = await usdcContract.balanceOf(...); success or
\* throw new InfrastructureError('Failed to fund account sufficiently...')
EnsReadFinal ==
  /\ pc = "ens_read3"
  /\ \/ /\ Fault("catch_ensure", ExtErrors)
        /\ UNCHANGED << ens, wrap >>
     \/ /\ UNCHANGED faults
        /\ ens' = [ens EXCEPT !.finalBalance = walletUsdc, !.lastRead = walletUsdc]
        /\ IF Short(walletUsdc, TargetUSDC)
           THEN /\ Throw("catch_ensure",
                         InfrastructureError(<<"Failed to fund account sufficiently">>))
                /\ UNCHANGED wrap
           ELSE EnsureReturns
  /\ UNCHANGED << worldVars, chainVars, spends, sdk, fund, demo, tx, relay, exitCode >>

(***************************************************************************)
(* fund-account.ts: the body of fundTestAccount.                           *)
(***************************************************************************)
Request(op, w, amt, ok) == [op |-> op, whale |-> w, amount |-> amt, ok |-> ok]

\* the request is appended to the log of this body and counted for the
\* enclosing ensureSufficientUSDC body
Logged(f, r) == [f EXCEPT !.reqLog = Append(@, r)]

Counted(e) == [e EXCEPT !.requests = @ + 1]

\* one iteration of `for (const whale of USDC_WHALES)`: the balance read (a
\* failed read is caught, logged and skipped), the selection, and after the
\* last candidate the `if (!whaleFound) throw`
FundScan ==
  /\ pc = "fund_scan"
  /\ LET i == fund.scanIdx
         next(f) == IF i < NumWhales
                    THEN /\ NoThrow("fund_scan")
                         /\ fund' = [f EXCEPT !.scanIdx = i + 1]
                    ELSE /\ Throw("fund_cleanup",
                                  InfrastructureError(
                                    <<"No suitable USDC whale found with sufficient balance. Need: ",
                                      formatTokenAmount(fund.amount)>>))
                         /\ fund' = f
     IN \/ /\ faults < MaxFaults
           /\ faults' = faults + 1
           /\ next([fund EXCEPT !.scan = Append(@, -1)])
        \/ /\ UNCHANGED faults
           /\ IF WhaleQualifies(whaleBal[i], fund.amount)
              THEN /\ NoThrow("fund_impersonate")
                   /\ fund' = [fund EXCEPT !.scan = Append(@, whaleBal[i]),
                                           !.USDC_WHALE = i,
                                           !.whaleFound = TRUE]
              ELSE next([fund EXCEPT !.scan = Append(@, whaleBal[i])])
  /\ UNCHANGED << wrap, worldVars, chainVars, spends, sdk, ens, demo, tx, relay,
                  exitCode >>

\* mutant: the body goes on without the impersonation having been granted
FundImpersonate_NoGrant ==
  /\ pc = "fund_impersonate"
  /\ NoThrow("fund_setbalance")
  /\ fund' = Logged(fund, Request("impersonate", fund.USDC_WHALE, 0, TRUE))
  /\ ens' = Counted(ens)
  /\ UNCHANGED << wrap, worldVars, chainVars, faults, spends, sdk, demo, tx, relay,
                  exitCode >>

\* anvilProvider.send('anvil_impersonateAccount', [USDC_WHALE])
FundImpersonate ==
  /\ pc = "fund_impersonate"
  /\ LET w == fund.USDC_WHALE
     IN \/ /\ Fault("fund_cleanup", ImpersonateErrors)
           /\ fund' = Logged(fund, Request("impersonate", w, 0, FALSE))
           /\ UNCHANGED impersonated
        \/ /\ NoThrow("fund_setbalance")
           /\ impersonated' = impersonated \cup {w}
           /\ fund' = Logged(fund, Request("impersonate", w, 0, TRUE))
           /\ UNCHANGED faults
  /\ ens' = Counted(ens)
  /\ UNCHANGED << wrap, worldVars, walletUsdc, walletAUsdc, whaleBal, spends, sdk,
                  demo, tx, relay, exitCode >>

\* anvilProvider.send('anvil_setBalance', [USDC_WHALE, 10 ETH])
FundSetBalance ==
  /\ pc = "fund_setbalance"
  /\ LET w == fund.USDC_WHALE
     IN \/ /\ Fault("fund_cleanup", ExtErrors)
           /\ fund' = Logged(fund, Request("setBalance", w, 0, FALSE))
        \/ /\ NoThrow("fund_transfer")
           /\ fund' = Logged(fund, Request("setBalance", w, 0, TRUE))
           /\ UNCHANGED faults
  /\ ens' = Counted(ens)
  /\ UNCHANGED << wrap, worldVars, chainVars, spends, sdk, demo, tx, relay, exitCode >>

\* anvilProvider.getSigner(USDC_WHALE); finalUsdcContract.transfer(eoa, amount)
FundTransfer ==
  /\ pc = "fund_transfer"
  /\ LET w == fund.USDC_WHALE
         sent(ok) == [Logged(fund, Request("transfer", w, fund.amount, ok))
                        EXCEPT !.xfers = @ + 1]
     IN \/ /\ Fault("fund_cleanup", ExtErrors)
           /\ fund' = sent(FALSE)
        \/ /\ NoThrow("fund_wait")
           /\ fund' = sent(TRUE)
           /\ UNCHANGED faults
  /\ ens' = Counted(ens)
  /\ UNCHANGED << wrap, worldVars, chainVars, spends, sdk, demo, tx, relay, exitCode >>

\* mutant: only a missing receipt is treated as a failure
ReceiptFailed_OnlyMissing(r) == r = "null"

\* if (!receipt || receipt.status !== 1)
ReceiptFailed(r) == r = "null" \/ r # "status1"

\* receipt = await transferTx.wait(); if (!receipt || receipt.status !== 1) throw
FundWait ==
  /\ pc = "fund_wait"
  /\ LET w == fund.USDC_WHALE
     IN \/ /\ Fault("fund_cleanup", ExtErrors)
           /\ UNCHANGED << fund, walletUsdc, whaleBal >>
        \/ \* no receipt, or the receipt of a reverted transfer
           /\ faults < MaxFaults
           /\ faults' = faults + 1
           /\ \E r \in {"null", "status0"} :
                /\ fund' = [fund EXCEPT !.receipt = r]
                /\ IF ReceiptFailed(r)
                   THEN Throw("fund_cleanup",
                              InfrastructureError(<<"USDC transfer transaction failed">>))
                   ELSE NoThrow("fund_verify")
           /\ UNCHANGED << walletUsdc, whaleBal >>
        \/ \* the receipt of a mined transfer
           /\ fund' = [fund EXCEPT !.receipt = "status1"]
           /\ IF ReceiptFailed("status1")
              THEN Throw("fund_cleanup",
                         InfrastructureError(<<"USDC transfer transaction failed">>))
              ELSE NoThrow("fund_verify")
           /\ walletUsdc' = walletUsdc + fund.amount
           /\ whaleBal' = [whaleBal EXCEPT ![w] = @ - fund.amount]
           /\ UNCHANGED faults
  /\ UNCHANGED << wrap, worldVars, walletAUsdc, impersonated, spends, sdk, ens, demo,
                  tx, relay, exitCode >>

\* newBalance = await targetUsdcContract.balanceOf(sdk.eoaAddress)
FundVerify ==
  /\ pc = "fund_verify"
  /\ \/ /\ Fault("fund_cleanup", ExtErrors)
        /\ UNCHANGED << fund, ens >>
     \/ /\ NoThrow("fund_stop")
        /\ fund' = [fund EXCEPT !.newBalance = walletUsdc]
        /\ ens' = [ens EXCEPT !.lastRead = walletUsdc]
        /\ UNCHANGED faults
  /\ UNCHANGED << wrap, worldVars, chainVars, spends, sdk, demo, tx, relay, exitCode >>

\* anvilProvider.send('anvil_stopImpersonatingAccount', [USDC_WHALE]) and the
\* normal return of the body
FundStop ==
  /\ pc = "fund_stop"
  /\ LET w == fund.USDC_WHALE
     IN \/ /\ Fault("fund_cleanup", ExtErrors)
           /\ fund' = Logged(fund, Request("stop", w, 0, FALSE))
           /\ UNCHANGED << impersonated, wrap >>
        \/ /\ NoThrow(IF ens.stage = "first" THEN "ens_read2" ELSE "ens_read3")
           /\ impersonated' = impersonated \ {w}
           /\ fund' = Logged(fund, Request("stop", w, 0, TRUE))
           /\ wrap' = Leave(wrap, "fund")
           /\ UNCHANGED faults
  /\ ens' = Counted(ens)
  /\ UNCHANGED << worldVars, walletUsdc, walletAUsdc, whaleBal, spends, sdk, demo, tx,
                  relay, exitCode >>

\* mutant: the catch clause drops the message of the error it caught
FundingError_Unknown(error) ==
  InfrastructureError(<<"USDC funding failed with unknown error">>)

\* what the catch clause of the body throws for the error it caught
FundingError(error) ==
  IF Includes(error.message, "anvil_impersonateAccount")
  THEN InfrastructureError(<<"Anvil impersonation failed. Ensure Anvil is running with mainnet fork">>)
  ELSE InfrastructureError(<<"USDC funding failed: ">> \o error.message)

\* mutant: the catch clause rethrows without the cleanup request
FundCleanup_NoStop ==
  /\ pc = "fund_cleanup"
  /\ Throw("catch_fund", FundingError(exc))
  /\ UNCHANGED << wrap, worldVars, chainVars, faults, spends, sdk, ens, fund,
                  demo, tx, relay, exitCode >>

\* catch (error) { try { stopImpersonating(USDC_WHALE) } catch (cleanupError)
\* { log.warn } ; throw new InfrastructureError(...) }
FundCleanup ==
  /\ pc = "fund_cleanup"
  /\ LET w == fund.USDC_WHALE
     IN \/ /\ faults < MaxFaults
           /\ faults' = faults + 1
           /\ fund' = Logged(fund, Request("stop", w, 0, FALSE))
           /\ UNCHANGED impersonated
        \/ /\ impersonated' = impersonated \ {w}
           /\ fund' = Logged(fund, Request("stop", w, 0, TRUE))
           /\ UNCHANGED faults
  /\ Throw("catch_fund", FundingError(exc))
  /\ ens' = Counted(ens)
  /\ UNCHANGED << wrap, worldVars, walletUsdc, walletAUsdc, whaleBal, spends, sdk,
                  demo, tx, relay, exitCode >>

(***************************************************************************)
(* executeFusionAaveDemo: snapshot after funding, floor check, halving.    *)
(***************************************************************************)
\* updatedBalance = await captureBalanceSnapshot(sdk);
\* Object.assign(beforeBalance, updatedBalance); the two checks;
\* supplyAmount = finalUsdcBalance.balance / 2n
DemoSnapshot2 ==
  /\ pc = "demo_snap2"
  /\ \/ /\ Fault("catch_demo", ExtErrors)
        /\ UNCHANGED demo
     \/ /\ UNCHANGED faults
        /\ IF BelowFloor(walletUsdc)
           THEN /\ Throw("catch_demo",
                         TransactionError(<<"Insufficient USDC balance for demo execution">>))
                /\ demo' = [demo EXCEPT !.beforeBalance = Snapshot, !.snapshots = 2]
           ELSE /\ NoThrow("tx_approve")
                /\ demo' = [demo EXCEPT !.beforeBalance = Snapshot,
                                        !.snapshots = 2,
                                        !.supplyAmount = HalfOf(walletUsdc)]
  /\ ens' = EnsFresh
  /\ fund' = FundIdle
  /\ tx' = TxFresh
  /\ UNCHANGED << wrap, worldVars, chainVars, spends, sdk, relay, exitCode >>

(***************************************************************************)
(* fusion-aave-demo.ts: executeFusionTransaction(sdk, supplyAmount).       *)
(***************************************************************************)
\* the descriptor handed to buildComposable
Instruction(to, fn, args) == [to |-> to, functionName |-> fn, args |-> args]

ApproveInstruction(amt) == Instruction("usdc", "approve", <<"aavePool", amt>>)

SupplyInstruction(amt) == Instruction("aavePool", "supply", <<"usdc", amt, "eoa", 0>>)

\* mutant: the instructions are listed in the opposite order
FusionQuoteRequest_Reversed(instructions, amt) ==
  [ instructions |-> <<instructions[2], instructions[1]>>,
    trigger |-> [tokenAddress |-> "usdc", amount |-> amt],
    feeToken |-> "usdc" ]

\* the argument of sdk.meeClient.getFusionQuote
FusionQuoteRequest(instructions, amt) ==
  [ instructions |-> instructions,
    trigger |-> [tokenAddress |-> "usdc", amount |-> amt],
    feeToken |-> "usdc" ]

\* approveInstruction = await sdk.orchestrator.buildComposable({... approve ...})
TxBuildApprove ==
  /\ pc = "tx_approve"
  /\ \/ Fault("tx_catch", RelayErrors) /\ UNCHANGED tx
     \/ /\ NoThrow("tx_supply")
        /\ tx' = [tx EXCEPT !.instructions = <<ApproveInstruction(demo.supplyAmount)>>]
        /\ UNCHANGED faults
  /\ UNCHANGED << wrap, worldVars, chainVars, spends, sdk, ens, fund, demo, relay,
                  exitCode >>

\* supplyInstruction = await sdk.orchestrator.buildComposable({... supply ...});
\* instructions = [approveInstruction, supplyInstruction]
TxBuildSupply ==
  /\ pc = "tx_supply"
  /\ \/ Fault("tx_catch", RelayErrors) /\ UNCHANGED tx
     \/ /\ NoThrow("tx_quote")
        /\ tx' = [tx EXCEPT !.instructions = Append(@, SupplyInstruction(demo.supplyAmount))]
        /\ UNCHANGED faults
  /\ UNCHANGED << wrap, worldVars, chainVars, spends, sdk, ens, fund, demo, relay,
                  exitCode >>

\* fusionQuote = await sdk.meeClient.getFusionQuote({...})
TxGetQuote ==
  /\ pc = "tx_quote"
  /\ relay' = [relay EXCEPT !.quotes =
                 <<FusionQuoteRequest(tx.instructions, demo.supplyAmount)>>]
  /\ \/ /\ Fault("tx_catch", RelayErrors)
        /\ tx' = [tx EXCEPT !.sent = Append(@, "quote")]
     \/ /\ NoThrow("tx_execute")
        /\ tx' = [tx EXCEPT !.quoted = TRUE, !.sent = Append(@, "quote")]
        /\ UNCHANGED faults
  /\ UNCHANGED << wrap, worldVars, chainVars, spends, sdk, ens, fund, demo, exitCode >>

\* { hash } = await sdk.meeClient.executeFusionQuote({ fusionQuote })
TxExecute ==
  /\ pc = "tx_execute"
  /\ \/ /\ Fault("tx_catch", RelayErrors)
        /\ tx' = [tx EXCEPT !.sent = Append(@, "execute")]
        /\ UNCHANGED relay
     \/ /\ NoThrow("tx_receipt")
        /\ tx' = [tx EXCEPT !.hash = "0xhash", !.sent = Append(@, "execute")]
        /\ relay' = [relay EXCEPT !.executes = @ + 1]
        /\ UNCHANGED faults
  /\ UNCHANGED << wrap, worldVars, chainVars, spends, sdk, ens, fund, demo, exitCode >>

\* the object executeFusionTransaction returns
FusionResult(hash, amt) ==
  [ hash |-> hash, success |-> TRUE, supplyAmount |-> amt, aTokensReceived |-> amt,
    beforeBalance |-> EmptySnapshot, afterBalance |-> EmptySnapshot ]

\* mutant: only FAILED is treated as a failure
IsFailureStatus_OnlyFailed(st) == st = "FAILED"

\* receipt.transactionStatus === 'FAILED' || ... === 'MINED_FAIL'
IsFailureStatus(st) == st \in {"FAILED", "MINED_FAIL"}

\* receipt = await sdk.meeClient.waitForSupertransactionReceipt({ hash });
\* the status check; the returned result
TxWaitReceipt ==
  /\ pc = "tx_receipt"
  /\ \/ /\ Fault("tx_catch", RelayErrors)
        /\ UNCHANGED << tx, demo, walletUsdc, walletAUsdc >>
     \/ \* the fused transaction was mined and succeeded
        /\ UNCHANGED faults
        /\ \E fee \in FusionFees, st \in {"SUCCESS", "MINED_SUCCESS"} :
             /\ walletUsdc >= demo.supplyAmount + fee
             /\ walletUsdc' = walletUsdc - demo.supplyAmount - fee
             /\ walletAUsdc' = walletAUsdc + demo.supplyAmount
             /\ tx' = [tx EXCEPT !.receipt = [transactionStatus |-> st, fields |-> {}]]
        /\ demo' = [demo EXCEPT !.transactionResult =
                                   FusionResult(tx.hash, demo.supplyAmount)]
        /\ NoThrow("demo_snap3")
     \/ \* any other receipt: nothing was supplied (yet); a failed one carries
        \* the relay's diagnostics
        /\ \/ faults < MaxFaults /\ faults' = faults + 1
           \/ /\ \A fee \in FusionFees : walletUsdc < demo.supplyAmount + fee
              /\ UNCHANGED faults
        /\ UNCHANGED << walletUsdc, walletAUsdc >>
        /\ \E st \in ReceiptStatuses \ {"SUCCESS", "MINED_SUCCESS"} :
           \E F \in (IF st \in {"FAILED", "MINED_FAIL"} THEN DiagFieldSets ELSE {{}}) :
             /\ tx' = [tx EXCEPT !.receipt = [transactionStatus |-> st, fields |-> F]]
             /\ IF IsFailureStatus(st)
                THEN /\ Throw("tx_catch",
                              TransactionError(<<"Fusion transaction failed: ">>
                                               \o extractErrorDetails(F)))
                     /\ UNCHANGED demo
                ELSE /\ NoThrow("demo_snap3")
                     /\ demo' = [demo EXCEPT !.transactionResult =
                                                FusionResult(tx.hash, demo.supplyAmount)]
  /\ UNCHANGED << wrap, worldVars, whaleBal, impersonated, spends, sdk, ens, fund,
                  relay, exitCode >>

\* the message the catch clause of executeFusionTransaction builds
TxErrorMessage(error) ==
  IF error.kind = "Error" THEN error.message
  ELSE IF error.kind = "object" THEN extractErrorDetails(error.fields)
  ELSE <<"Unknown error">>

\* catch (error) { ... throw new TransactionError(`Fusion execution failed: ...`) }
TxCatch ==
  /\ pc = "tx_catch"
  /\ Throw("catch_demo",
           TransactionError(<<"Fusion execution failed: ">> \o TxErrorMessage(exc)))
  /\ UNCHANGED << wrap, worldVars, chainVars, faults, spends, localVars, relay,
                  exitCode >>

(***************************************************************************)
(* executeFusionAaveDemo: final snapshot and return; main's exits.         *)
(***************************************************************************)
\* afterBalance = await captureBalanceSnapshot(sdk);
\* transactionResult = { ...transactionResult, afterBalance }; return
DemoSnapshot3 ==
  /\ pc = "demo_snap3"
  /\ \/ /\ Fault("catch_demo", ExtErrors)
        /\ UNCHANGED << demo, wrap >>
     \/ /\ NoThrow("main_return")
        /\ demo' = [demo EXCEPT !.transactionResult.afterBalance = Snapshot,
                                !.snapshots = 3]
        /\ wrap' = Leave(wrap, "demo")
        /\ UNCHANGED faults
  /\ UNCHANGED << worldVars, chainVars, spends, sdk, ens, fund, tx, relay, exitCode >>

\* main: await executeFusionAaveDemo(); process.exit(0)
MainExit ==
  /\ pc = "main_return"
  /\ NoThrow("exited")
  /\ exitCode' = 0
  /\ UNCHANGED << wrap, worldVars, chainVars, faults, spends, localVars, relay >>

\* mutant: the top-level handler exits with the success code
MainCatch_ExitZero ==
  /\ pc = "catch_main"
  /\ pc' = "exited"
  /\ exc' = exc
  /\ exitCode' = 0
  /\ UNCHANGED << wrap, worldVars, chainVars, faults, spends, localVars, relay >>

\* main: catch (error) { console.error(...); process.exit(1) }
MainCatch ==
  /\ pc = "catch_main"
  /\ pc' = "exited"
  /\ exc' = exc
  /\ exitCode' = 1
  /\ UNCHANGED << wrap, worldVars, chainVars, faults, spends, localVars, relay >>

(***************************************************************************)
(* errors.ts: the catch clause of a withErrorHandling closure.             *)
(***************************************************************************)
\* mutant: the loop runs a fourth time
MayRetry_FourTimes(attempt) == attempt < 4

\* mutant: only a connection failure is retried
MayRetry_OnlyTransient(attempt) ==
  attempt < MaxAttempts /\ Includes(exc.message, "ECONNREFUSED")

\* for (let attempt = 1; attempt <= 3; attempt++) ... if (attempt < 3) ... continue
MayRetry(attempt) == attempt < MaxAttempts

\* the locals of the body that is invoked again
RetryLocals(l) ==
  CASE l = "ensure" ->
         /\ ens' = EnsAtEntry
         /\ fund' = FundIdle
         /\ UNCHANGED << sdk, demo, tx >>
    [] l = "fund" ->
         /\ fund' = FundFresh(fund.amount, fund.xfers)
         /\ UNCHANGED << sdk, ens, demo, tx >>
    [] OTHER -> UNCHANGED localVars

\* catch (error) { lastError = ...; if (attempt < 3) { await sleep(delay);
\* continue } }   followed by the next `return await fn(...args)`
WrapperRetry(l) ==
  /\ pc = CatchPc(l)
  /\ MayRetry(wrap[l].attempt)
  /\ wrap' = [wrap EXCEPT ![l] =
                [ attempt     |-> @.attempt + 1,
                  lastError   |-> WrappedError(l, exc),
                  delays      |-> Append(@.delays, RetryDelay(@.attempt)),
                  invocations |-> @.invocations + 1,
                  bodies      |-> @.bodies + 1,
                  result      |-> @.result ]]
  /\ NoThrow(BodyStart(l))
  /\ RetryLocals(l)
  /\ UNCHANGED << worldVars, chainVars, faults, spends, relay, exitCode >>

\* catch (error) { lastError = ...; append suggestions; break }
\* throw lastError
WrapperThrow(l) ==
  /\ pc = CatchPc(l)
  /\ ~MayRetry(wrap[l].attempt)
  /\ Throw(CallerCatch(l), FinalError(l, exc))
  /\ wrap' = Leave(wrap, l)
  /\ UNCHANGED << worldVars, chainVars, faults, spends, localVars, relay, exitCode >>

(***************************************************************************)
(* The environment: another actor moves funds out of the session wallet.   *)
(* The wallet balance is observed only when the program reads it or the    *)
(* relay executes the fused transaction, so the step is taken right before *)
(* such a point.                                                           *)
(***************************************************************************)
SpendPoints == { "ens_read1", "ens_read2", "ens_read3", "demo_snap2", "tx_receipt",
                 "demo_snap3" }

\* at most `limit` such moves in a run
Spend(limit) ==
  /\ spends < limit
  /\ pc \in SpendPoints
  /\ \E v \in SpendLeaves : walletUsdc > v /\ walletUsdc' = v
  /\ spends' = spends + 1
  /\ UNCHANGED << pc, exc, wrap, worldVars, walletAUsdc, whaleBal, impersonated,
                  faults, localVars, relay, exitCode >>

ExternalSpend == Spend(MaxSpends)

Next ==
  \/ MainStart
  \/ DemoStart
  \/ InitCreateConfig
  \/ InitGetNetwork
  \/ InitGetBalance
  \/ InitCreateAccount
  \/ InitFetchInfo
  \/ InitCreateMeeClient
  \/ InitCheckUsdc
  \/ DemoSnapshot1
  \/ EnsReadCurrent
  \/ EnsReadNew
  \/ EnsReadFinal
  \/ FundScan
  \/ FundImpersonate
  \/ FundSetBalance
  \/ FundTransfer
  \/ FundWait
  \/ FundVerify
  \/ FundStop
  \/ FundCleanup
  \/ DemoSnapshot2
  \/ TxBuildApprove
  \/ TxBuildSupply
  \/ TxGetQuote
  \/ TxExecute
  \/ TxWaitReceipt
  \/ TxCatch
  \/ DemoSnapshot3
  \/ MainExit
  \/ MainCatch
  \/ \E l \in Levels : WrapperRetry(l)
  \/ \E l \in Levels : WrapperThrow(l)
  \/ ExternalSpend

Spec == Init /\ [][Next]_vars

(***************************************************************************)
(* ensureSufficientUSDC(sdk, targetAmount) on its own: one call of the     *)
(* wrapped function on an initialized sdk, with the wallet drained up to   *)
(* MaxEnsureSpends times between its balance reads.                        *)
(***************************************************************************)
InitEnsure ==
  /\ pc = "ens_read1"
  /\ exc = NoErr
  /\ wrap = Enter([l \in Levels |-> IdleWrap], "ensure")
  /\ env = ValidEnv
  /\ netChainId = DefaultChainId
  /\ relayOk = TRUE
  /\ \E c \in ChainInits : walletUsdc = c[1] /\ whaleBal = c[2]
  /\ walletAUsdc = 0
  /\ impersonated = {}
  /\ faults = 0
  /\ spends = 0
  /\ sdk = [SdkFresh EXCEPT !.parts = {"provider", "signer", "orchestrator", "meeClient"},
                            !.ready = TRUE]
  /\ ens = [EnsFresh EXCEPT !.entry = [wallet |-> walletUsdc, whales |-> whaleBal,
                                       impersonated |-> {}, spends |-> 0]]
  /\ fund = FundIdle
  /\ demo = DemoFresh
  /\ tx = TxFresh
  /\ relay = RelayFresh
  /\ exitCode = -1

EnsureSpend == Spend(MaxEnsureSpends)

NextEnsure ==
  \/ EnsReadCurrent
  \/ EnsReadNew
  \/ EnsReadFinal
  \/ FundScan
  \/ FundImpersonate
  \/ FundSetBalance
  \/ FundTransfer
  \/ FundWait
  \/ FundVerify
  \/ FundStop
  \/ FundCleanup
  \/ \E l \in {"ensure", "fund"} : WrapperRetry(l)
  \/ \E l \in {"ensure", "fund"} : WrapperThrow(l)
  \/ EnsureSpend

SpecEnsure == InitEnsure /\ [][NextEnsure]_vars

(***************************************************************************)
(* Configuration loading on its own: createConfig() applied to every       *)
(* environment of EnvDomain.                                               *)
(***************************************************************************)
InitConfig ==
  /\ pc = "cfg_load"
  /\ exc = NoErr
  /\ wrap = [l \in Levels |-> IdleWrap]
  /\ env \in EnvDomain
  /\ netChainId = DefaultChainId
  /\ relayOk = TRUE
  /\ walletUsdc = 0
  /\ walletAUsdc = 0
  /\ whaleBal = [w \in Whales |-> 0]
  /\ impersonated = {}
  /\ faults = 0
  /\ spends = 0
  /\ sdk = SdkFresh
  /\ ens = EnsFresh
  /\ fund = FundIdle
  /\ demo = DemoFresh
  /\ tx = TxFresh
  /\ relay = RelayFresh
  /\ exitCode = -1

\* createConfig: const env = loadEnvironment()
CfgLoadEnvironment ==
  /\ pc = "cfg_load"
  /\ LET r == loadEnvironment(env)
     IN IF r.ok THEN NoThrow("cfg_create") ELSE Throw("cfg_failed", r.error)
  /\ UNCHANGED << wrap, worldVars, chainVars, faults, spends, localVars, relay,
                  exitCode >>

\* createConfig: the derived settings and "Validate the final configuration"
CfgCreateConfig ==
  /\ pc = "cfg_create"
  /\ LET r == createConfig(env)
     IN /\ sdk' = [sdk EXCEPT !.config = r.config]
        /\ IF r.ok THEN NoThrow("cfg_ok") ELSE Throw("cfg_failed", r.error)
  /\ UNCHANGED << wrap, worldVars, chainVars, faults, spends, ens, fund, demo, tx,
                  relay, exitCode >>

NextConfig == CfgLoadEnvironment \/ CfgCreateConfig

SpecConfig == InitConfig /\ [][NextConfig]_vars

(***************************************************************************)
(* Properties.                                                             *)
(***************************************************************************)
(***************************************************************************)
(* errors.ts: one call of a withErrorHandling closure around an operation  *)
(* that may fail with any kind of error (SpecRetry).                       *)
(***************************************************************************)
\* a thrown string
ThrownString(msg) == [kind |-> "string", name |-> "none", message |-> msg, fields |-> {}]

\* what the wrapped operation may throw
RetryErrors ==
  { PlainError(<<"ECONNREFUSED">>),
    PlainError(<<"network timeout">>),
    PlainError(<<"execution reverted">>),
    PlainError(<<"out of gas">>),
    PlainError(<<"unauthorized">>),
    PlainError(<<"rate limit exceeded">>),
    PlainError(<<"boom">>),
    TransactionError(<<"Fusion execution failed: ", "execution reverted">>),
    InfrastructureError(<<"USDC funding failed: ", "ECONNREFUSED">>),
    ThrownString(<<"rate limit exceeded">>),
    ThrownObject({"reason"}),
    ThrownObject({}) }

\* the closure that is being called
RetryLevel == CHOOSE l \in Levels : wrap[l].attempt > 0

InitRetry ==
  /\ pc = "wr_body"
  /\ exc = NoErr
  /\ \E l \in Levels : wrap = Enter([k \in Levels |-> IdleWrap], l)
  /\ env = ValidEnv
  /\ netChainId = DefaultChainId
  /\ relayOk = TRUE
  /\ walletUsdc = 0
  /\ walletAUsdc = 0
  /\ whaleBal = [w \in Whales |-> 0]
  /\ impersonated = {}
  /\ faults = 0
  /\ spends = 0
  /\ sdk = SdkFresh
  /\ ens = EnsFresh
  /\ fund = FundIdle
  /\ demo = DemoFresh
  /\ tx = TxFresh
  /\ relay = RelayFresh
  /\ exitCode = -1

\* return await fn(...args): fn returns, or throws into the catch clause
WrBody ==
  /\ pc = "wr_body"
  /\ \/ /\ NoThrow("wr_returned")
        /\ wrap' = [wrap EXCEPT ![RetryLevel].result = wrap[RetryLevel].invocations]
     \/ /\ \E e \in RetryErrors : Throw("wr_catch", e)
        /\ UNCHANGED wrap
  /\ UNCHANGED << worldVars, chainVars, faults, spends, localVars, relay, exitCode >>

\* catch: lastError = new Error(...); if (attempt < 3) { sleep; continue }
WrRetry ==
  /\ pc = "wr_catch"
  /\ MayRetry(wrap[RetryLevel].attempt)
  /\ wrap' = [wrap EXCEPT ![RetryLevel] =
                [ attempt     |-> @.attempt + 1,
                  lastError   |-> WrappedError(RetryLevel, exc),
                  delays      |-> Append(@.delays, RetryDelay(@.attempt)),
                  invocations |-> @.invocations + 1,
                  bodies      |-> @.bodies + 1,
                  result      |-> @.result ]]
  /\ NoThrow("wr_body")
  /\ UNCHANGED << worldVars, chainVars, faults, spends, localVars, relay, exitCode >>

\* mutant: the last catch sleeps once more before it throws
WrThrow_AfterDelay ==
  /\ pc = "wr_catch"
  /\ ~MayRetry(wrap[RetryLevel].attempt)
  /\ Throw("wr_thrown", FinalError(RetryLevel, exc))
  /\ wrap' = [wrap EXCEPT ![RetryLevel].lastError = FinalError(RetryLevel, exc),
                          ![RetryLevel].delays =
                             Append(@, RetryDelay(wrap[RetryLevel].attempt))]
  /\ UNCHANGED << worldVars, chainVars, faults, spends, localVars, relay, exitCode >>

\* catch on the last attempt: suggestions appended, break, throw lastError
WrThrow ==
  /\ pc = "wr_catch"
  /\ ~MayRetry(wrap[RetryLevel].attempt)
  /\ Throw("wr_thrown", FinalError(RetryLevel, exc))
  /\ wrap' = [wrap EXCEPT ![RetryLevel].lastError = FinalError(RetryLevel, exc)]
  /\ UNCHANGED << worldVars, chainVars, faults, spends, localVars, relay, exitCode >>

NextRetry == WrBody \/ WrRetry \/ WrThrow

SpecRetry == InitRetry /\ [][NextRetry]_vars

(***************************************************************************)
(* Properties of the funding step (fund-account.ts).                       *)
(***************************************************************************)
\* the statements of the body of fundTestAccount, its catch clause included
FundBodyPcs == { "fund_scan", "fund_impersonate", "fund_setbalance", "fund_transfer",
                 "fund_wait", "fund_verify", "fund_stop", "fund_cleanup" }

\* ensureSufficientUSDC has just returned to executeFusionAaveDemo
EnsureReturned == pc = "demo_snap2"

\* C1: whenever ensureSufficientUSDC returns normally, the last balance it
\* read for the session wallet is at least the 100 USDC target.
C1_ReturnsOnlyWithTarget ==
  EnsureReturned => /\ ens.lastRead >= 100000000
                    /\ ens.lastRead \in {ens.currentBalance, ens.newBalance,
                                         ens.finalBalance}

\* C1 witness: a normal return after a funding transfer was needed
C1_Witness ==
  /\ EnsureReturned
  /\ ens.callsFirst = 1
  /\ ens.currentBalance < 100000000
  /\ ens.lastRead >= 100000000

\* positions in a request log of the stop requests for donor w
StopsFor(log, w) == { j \in 1..Len(log) : log[j].op = "stop" /\ log[j].whale = w }

LastStopFor(log, w) == CHOOSE j \in StopsFor(log, w) : \A k \in StopsFor(log, w) : k <= j

C4_NoOpWhenSufficient ==
  ens.currentBalance >= 100000000 =>
    /\ EnsureReturned
    /\ ens.callsFirst = 0 /\ ens.callsSecond = 0
    /\ ens.requests = 0
    /\ fund = FundIdle
    /\ whaleBal = ens.entry.whales
    /\ impersonated = ens.entry.impersonated
    /\ spends = ens.entry.spends => walletUsdc = ens.entry.wallet

\* C4 witness: the routine returned on its first read
C4_Witness ==
  /\ EnsureReturned
  /\ ens.currentBalance = 100000001
  /\ ens.lastRead = ens.currentBalance
  /\ walletUsdc = ens.entry.wallet

\* the scan has not yet been followed by a transfer of this body
ScanIsCurrent == pc \in {"fund_scan", "fund_impersonate", "fund_setbalance", "fund_transfer"}

\* C5: the donor scan is first-fit in list order: the selected donor is the
\* first one whose balance read succeeded with a balance of at least the
\* requested amount, reads that failed are skipped, and no later donor is
\* read; with balances [30, 80, 150] and 50 requested the second is selected.
C5_FirstFitDonor ==
  /\ \A j \in 1..Len(fund.scan) :
       /\ ScanIsCurrent => fund.scan[j] \in {-1, whaleBal[j]}
       /\ (fund.whaleFound /\ j < fund.USDC_WHALE)
             => (fund.scan[j] = -1 \/ fund.scan[j] < fund.amount)
       /\ ~fund.whaleFound => (fund.scan[j] = -1 \/ fund.scan[j] < fund.amount)
  /\ fund.whaleFound => /\ Len(fund.scan) = fund.USDC_WHALE
                        /\ fund.scan[fund.USDC_WHALE] >= fund.amount
  /\ (fund.whaleFound /\ fund.amount = 50 /\ Len(fund.scan) >= 2
        /\ SubSeq(fund.scan, 1, 2) = <<30, 80>>) => fund.USDC_WHALE = 2

\* C5 witness: donors hold 30, 80, 150, 50 are requested, the second is taken
C5_Witness ==
  /\ fund.whaleFound
  /\ fund.amount = 50
  /\ fund.scan = <<30, 80>>
  /\ fund.USDC_WHALE = 2

\* C5 second witness: a failed read was skipped
C5_WitnessSkip ==
  /\ fund.whaleFound
  /\ fund.amount = 50
  /\ fund.scan = <<30, -1, 150>>
  /\ fund.USDC_WHALE = 3

(***************************************************************************)
(* Properties of the demo body (fusion-aave-demo.ts).                      *)
(***************************************************************************)
TxPcs == {"tx_approve", "tx_supply", "tx_quote", "tx_execute", "tx_receipt", "tx_catch"}

\* C6 (as stated): a post-funding balance of 101 yields a supply amount of 50.
C6_Balance101Yields50 ==
  (demo.snapshots >= 2 /\ demo.beforeBalance.usdc = 101) => demo.supplyAmount = 50

\* C6 (amended): whenever the transaction step is reached, the post-funding
\* balance B is at least 20000000 and the amount handed to the fused
\* transaction is floor(B / 2): 100000001 yields 50000000.  A balance below
\* 20000000, such as 101, never reaches the transaction step.
C6_SupplyIsFloorOfHalf ==
  /\ pc \in TxPcs =>
       /\ demo.snapshots = 2
       /\ demo.beforeBalance.usdc >= 20000000
       /\ 2 * demo.supplyAmount <= demo.beforeBalance.usdc
       /\ demo.beforeBalance.usdc < 2 * demo.supplyAmount + 2
       /\ demo.beforeBalance.usdc = 100000001 => demo.supplyAmount = 50000000
       /\ \A i \in 1..Len(tx.instructions) :
            tx.instructions[i].args[2] = demo.supplyAmount
       /\ pc = "tx_execute" => relay.quotes[1].trigger.amount = demo.supplyAmount
  /\ (demo.snapshots >= 2 /\ demo.beforeBalance.usdc < 20000000)
        => (demo.supplyAmount = -1 /\ pc \notin TxPcs)

\* C6 witness: an odd balance was halved and handed to the transaction step
C6_Witness ==
  /\ pc = "tx_execute"
  /\ demo.beforeBalance.usdc = 100000001
  /\ demo.supplyAmount = 50000000

\* the diagnostic text of a failed receipt that the error message carries
CarriesDiagnostic(message, fields) ==
  LET frags == { message[i] : i \in 1..Len(message) }
  IN IF fields = {} THEN "JSON of the whole object" \in frags
     ELSE \E f \in fields : DiagText[f] \in frags

C8_ThreeInvocationsGrowingDelays ==
  \A l \in Levels :
    /\ wrap[l].invocations <= 3
    /\ wrap[l].invocations = wrap[l].attempt
    /\ wrap[l].delays \in {<<>>, <<1000>>, <<1000, 2000>>}
    /\ wrap[l].invocations > 0 => Len(wrap[l].delays) = wrap[l].invocations - 1
    /\ \A i \in 1..Len(wrap[l].delays) : wrap[l].delays[i] <= 5000
    /\ Len(wrap[l].delays) = 2 => wrap[l].delays[1] < wrap[l].delays[2]

\* C8 witness: a third invocation is running after both delays
C8_Witness ==
  \E l \in Levels : /\ wrap[l].invocations = 3
                    /\ wrap[l].delays = <<1000, 2000>>
                    /\ pc \notin {"exited", CatchPc(l)}

(***************************************************************************)
(* Properties of loadEnvironment (utils/index.ts).                         *)
(***************************************************************************)
AllVars == RequiredVars \cup OptionalVars

\* the environment variable an entry of a validation message is about
VarNamedBy(entry) ==
  CASE entry \in {"ETH_MAINNET_RPC_URL is required",
                  "ETH_MAINNET_RPC_URL must be a valid URL"}     -> "ETH_MAINNET_RPC_URL"
    [] entry \in {"TEST_PRIVATE_KEY is required",
                  "TEST_PRIVATE_KEY must be a valid private key",
                  "Invalid private key format"}                  -> "TEST_PRIVATE_KEY"
    [] entry \in {"MEE_NODE_URL must be a valid URL",
                  "Invalid MEE Node URL"}                        -> "MEE_NODE_URL"
    [] entry \in {"ANVIL_RPC_URL must be a valid URL",
                  "Invalid Anvil RPC URL"}                       -> "ANVIL_RPC_URL"
    [] entry = "ANVIL_PORT must be a positive number"            -> "ANVIL_PORT"
    [] entry \in {"ANVIL_CHAIN_ID must be a positive number",
                  "Chain ID must be a positive integer"}         -> "ANVIL_CHAIN_ID"
    [] entry = "ANVIL_BLOCK_TIME must be a positive number"      -> "ANVIL_BLOCK_TIME"
    [] OTHER                                                     -> "none"

\* the variables a validation error names, and how many entries it lists
NamedVars(error) == { VarNamedBy(error.message[i]) : i \in 2..Len(error.message) }

EntryCount(error) == Len(error.message) - 1

\* loadEnvironment has thrown
LoadFailed ==
  /\ pc = "cfg_failed"
  /\ Len(exc.message) > 0
  /\ exc.message[1] = "Environment validation failed:"

\* loadEnvironment has run (it threw, or createConfig went on)
LoadDone == pc \in {"cfg_create", "cfg_ok", "cfg_failed"}

\* variables that are not set to an accepted value
MissingOrInvalid(e) == { v \in AllVars : e[v] \in {"missing", "empty", "invalid"} }

\* variables loadEnvironment rejects: a required one that is unset, empty or
\* malformed; an optional one (LOG_LEVEL is never looked at) that is set to a
\* value its validator rejects
Rejected(e) ==
  { v \in RequiredVars : e[v] \in {"missing", "empty", "invalid"} }
    \cup { v \in OptionalVars \ {"LOG_LEVEL"} : e[v] = "invalid" }

\* C9 (as stated): whenever at least one required or optional variable is
\* missing or invalid, loadEnvironment fails and its single error names every
\* missing or invalid field.
C9_AllMissingOrInvalidNamed ==
  (LoadDone /\ MissingOrInvalid(env) # {})
     => (LoadFailed /\ MissingOrInvalid(env) \subseteq NamedVars(exc))

\* C9 (amended): loadEnvironment fails exactly when some variable is rejected
\* (required: unset, empty or malformed; optional other than LOG_LEVEL: set to
\* a malformed value), and then its single error lists exactly one entry per
\* rejected variable, naming all of them.
C9_EveryRejectedFieldNamed ==
  LoadDone =>
    /\ LoadFailed <=> (Rejected(env) # {})
    /\ LoadFailed => /\ NamedVars(exc) = Rejected(env)
                     /\ EntryCount(exc) = Cardinality(Rejected(env))

\* C9 witness: loadEnvironment failed on an environment with several rejected
\* variables, required and optional
C9_Witness ==
  /\ LoadFailed
  /\ {"ETH_MAINNET_RPC_URL", "TEST_PRIVATE_KEY", "ANVIL_PORT"} \subseteq Rejected(env)
  /\ EntryCount(exc) >= 3

(***************************************************************************)
(* Properties of the process exit (index.ts).                              *)
(***************************************************************************)
\* where an error in flight is held: a catch clause that retries or rethrows
HandlerPcs == { CatchPc(l) : l \in Levels } \cup {"fund_cleanup", "tx_catch", "catch_main"}

\* executeFusionAaveDemo returned its result
DemoCompleted ==
  /\ demo.snapshots = 3
  /\ demo.transactionResult.success
  /\ demo.transactionResult.afterBalance = Snapshot
  /\ exc = NoErr

C10_WitnessSuccess ==
  /\ pc = "exited"
  /\ exitCode = 0
  /\ walletAUsdc > 0

(***************************************************************************)
(* The balance floor of executeFusionAaveDemo.                             *)
(***************************************************************************)
InsufficientBalanceError ==
  TransactionError(<<"Insufficient USDC balance for demo execution">>)

\* C11: when the balance of the snapshot taken before the transaction is
\* below 20000000 the attempt fails with a transaction error, no instruction
\* has been built and no request has been sent to the relay; the attempt
\* fails this way only for a whole balance below the floor, so a balance
\* whose half is below the floor still goes on.
C11_FloorFailsBeforeAnyRequest ==
  /\ (demo.snapshots = 2 /\ demo.beforeBalance.usdc < 20000000) =>
       /\ pc \in {"catch_demo", "demo_start", "catch_main", "exited"}
       /\ pc = "catch_demo" => exc = InsufficientBalanceError
       /\ demo.supplyAmount = -1
       /\ tx.instructions = <<>> /\ tx.sent = <<>> /\ tx.hash = "none"
       /\ demo.transactionResult = NoResult
  /\ (pc = "catch_demo" /\ exc = InsufficientBalanceError) =>
       (demo.snapshots = 2 /\ demo.beforeBalance.usdc < 20000000)

\* C11 witness: the attempt failed on a balance of 101
C11_Witness ==
  /\ pc = "catch_demo"
  /\ exc = InsufficientBalanceError
  /\ demo.snapshots = 2
  /\ demo.beforeBalance.usdc = 101
  /\ relay = RelayFresh

\* C11 second witness: a balance whose half is below the floor went on
C11_WitnessHalfBelowFloor ==
  /\ pc = "tx_execute"
  /\ demo.beforeBalance.usdc = 30000000
  /\ demo.supplyAmount = 15000000
  /\ tx.sent = <<"quote">>

(***************************************************************************)
(* The quote request of executeFusionTransaction.                          *)
(***************************************************************************)
\* C12: every quote request the relay receives lists exactly two
\* instructions, approve(pool, amount) on the stablecoin first and
\* supply(stablecoin, amount, wallet, 0) on the pool second, both with the
\* trigger amount, and names the stablecoin as trigger token and as fee
\* token; nothing is executed that was not quoted this way.
C12_QuoteIsApproveThenSupply ==
  /\ \A i \in 1..Len(relay.quotes) :
       LET q == relay.quotes[i]
           a == q.trigger.amount
       IN /\ Len(q.instructions) = 2
          /\ q.instructions[1] =
               [to |-> "usdc", functionName |-> "approve", args |-> <<"aavePool", a>>]
          /\ q.instructions[2] =
               [to |-> "aavePool", functionName |-> "supply",
                args |-> <<"usdc", a, "eoa", 0>>]
          /\ a > 0
          /\ q.trigger.tokenAddress = "usdc"
          /\ q.feeToken = "usdc"
  /\ tx.sent # <<>> => /\ tx.sent[1] = "quote"
                       /\ relay.quotes # <<>>
                       /\ relay.quotes[1].trigger.amount = demo.supplyAmount
                       /\ relay.quotes[1].instructions = tx.instructions
  /\ Len(tx.sent) >= 2 => (tx.quoted /\ tx.sent = <<"quote", "execute">>)

\* C12 witness: a quote for 50000000 was answered and is about to be executed
C12_Witness ==
  /\ pc = "tx_execute"
  /\ tx.sent = <<"quote">>
  /\ Len(relay.quotes) = 1
  /\ relay.quotes[1].trigger.amount = 50000000
  /\ relay.quotes[1].instructions[1].functionName = "approve"

(***************************************************************************)
(* fundTestAccount when no donor qualifies.                                *)
(***************************************************************************)
\* the scan of this attempt is over and selected nobody
NoDonorFound == ~fund.whaleFound /\ Len(fund.scan) = NumWhales

GrantOrTransfer == {"impersonate", "setBalance", "transfer"}

Fragments(message) == { message[i] : i \in 1..Len(message) }

\* C13: when no candidate had a successfully read balance of at least the
\* requested amount, the attempt fails with an infrastructure error saying
\* that no suitable donor was found and printing the amount, and the attempt
\* made no impersonation, native-balance or transfer request.
C13_NoDonorFailsWithoutGrant ==
  /\ NoDonorFound =>
       /\ \A j \in 1..NumWhales : fund.scan[j] = -1 \/ fund.scan[j] < fund.amount
       /\ pc \notin {"fund_scan", "fund_impersonate", "fund_setbalance",
                     "fund_transfer", "fund_wait", "fund_verify", "fund_stop",
                     "ens_read2", "ens_read3", "demo_snap2"}
       /\ pc \in {"fund_cleanup", "catch_fund"} =>
            /\ exc.name = "InfrastructureError"
            /\ "No suitable USDC whale found with sufficient balance. Need: "
                 \in Fragments(exc.message)
            /\ formatTokenAmount(fund.amount) \in Fragments(exc.message)
  /\ ~fund.whaleFound =>
       \A i \in 1..Len(fund.reqLog) : fund.reqLog[i].op \notin GrantOrTransfer

\* C13 witness: every donor holds 30, 50 were requested, the attempt failed
C13_Witness ==
  /\ pc = "catch_fund"
  /\ NoDonorFound
  /\ fund.amount = 50
  /\ fund.scan = <<30, 30, 30, 30, 30>>
  /\ exc.message = <<"USDC funding failed: ",
                     "No suitable USDC whale found with sufficient balance. Need: ",
                     "50e-6 USDC">>

(***************************************************************************)
(* fundTestAccount and the receipt of the donor transfer.                  *)
(***************************************************************************)
\* where the body of fundTestAccount has got past the receipt check or has
\* returned to ensureSufficientUSDC
PastReceiptCheck == {"fund_verify", "fund_stop", "ens_read2", "ens_read3", "demo_snap2"}

\* C14: when the receipt of the donor transfer is missing or its status is not
\* 1, the attempt fails with an error; an attempt that got past the receipt
\* check, and so every attempt that returns, had a receipt of status 1.
C14_BadReceiptIsFailure ==
  /\ fund.receipt \in {"null", "status0"} =>
       /\ pc \notin PastReceiptCheck
       /\ pc = "fund_cleanup" =>
            exc = InfrastructureError(<<"USDC transfer transaction failed">>)
       /\ pc = "catch_fund" =>
            exc = InfrastructureError(<<"USDC funding failed: ",
                                        "USDC transfer transaction failed">>)
  /\ (pc \in {"fund_verify", "fund_stop"}
        \/ (pc \in {"ens_read2", "ens_read3"} /\ fund.amount >= 0))
       => fund.receipt = "status1"

\* C14 witness: the attempt failed on a receipt of status 0
C14_Witness ==
  /\ pc = "catch_fund"
  /\ fund.receipt = "status0"
  /\ fund.xfers = 1
  /\ exc.name = "InfrastructureError"

\* C14 second witness: the attempt failed on a missing receipt
C14_WitnessMissing ==
  /\ pc = "fund_cleanup"
  /\ fund.receipt = "null"

(***************************************************************************)
(* withErrorHandling: which failures are retried.                          *)
(***************************************************************************)
\* C15: whatever error a wrapped operation has thrown, the wrapper invokes it
\* again after the delay of that attempt as long as fewer than three
\* invocations were made, and gives up only after the third; a validation
\* failure of the configuration inside initializeBiconomySDK is retried like
\* any other failure.
C15_RetriesAreBlind ==
  [][ \A l \in Levels :
        pc = CatchPc(l) =>
          IF wrap[l].attempt < 3
          THEN /\ pc' = BodyStart(l)
               /\ wrap'[l].invocations = wrap[l].invocations + 1
               /\ wrap'[l].delays =
                    Append(wrap[l].delays, IF wrap[l].attempt = 1 THEN 1000 ELSE 2000)
          ELSE /\ pc' = CallerCatch(l)
               /\ exc' # NoErr ]_vars

\* C15 witness: initializeBiconomySDK failed on the validation of the
\* environment for the third time
C15_Witness ==
  /\ pc = "catch_init"
  /\ wrap["init"].invocations = 3
  /\ exc.kind = "Error"
  /\ exc.message[1] = "Environment validation failed:"

\* C15 further witnesses: a transaction error and an infrastructure error
\* were retried
C15_WitnessTransaction ==
  /\ pc = "demo_start"
  /\ wrap["demo"].invocations = 2
  /\ tx.receipt.transactionStatus = "FAILED"

C15_WitnessInfrastructure ==
  /\ pc = "fund_scan"
  /\ wrap["fund"].invocations = 2
  /\ wrap["fund"].lastError.message[2] = "USDC funding failed: "

(***************************************************************************)
(* withErrorHandling: the error thrown after the last attempt (SpecRetry). *)
(***************************************************************************)
\* the text of a thrown value as the wrapper reads it
FailureText(e) ==
  IF e.kind \in {"Error", "string"} THEN e.message
  ELSE IF "reason" \in e.fields THEN <<"relay: reason">>
  ELSE <<"Unknown error occurred">>

\* text with the given fragment as its last one
EndsWith(text, frag) == Len(text) > 0 /\ text[Len(text)] = frag

\* the suggestion list the message of the final error must end with, for the
\* failure texts of RetryErrors
ExpectedSuggestions(text) ==
  IF EndsWith(text, "ECONNREFUSED") \/ EndsWith(text, "network timeout")
    THEN << "Suggestions:",
            "  * Check if Anvil is running: npm run infra:anvil",
            "  * Check if MEE Node is running: npm run infra:mee",
            "  * Verify network connectivity" >>
  ELSE IF EndsWith(text, "execution reverted")
    THEN << "Suggestions:",
            "  * Check if contracts are deployed on the fork",
            "  * Verify transaction parameters",
            "  * Check account balance and allowances" >>
  ELSE IF EndsWith(text, "rate limit exceeded")
    THEN << "Suggestions:",
            "  * Wait before retrying",
            "  * Consider using a different RPC provider" >>
  ELSE IF EndsWith(text, "out of gas")
    THEN << "Suggestions:",
            "  * Increase gas limit in transaction",
            "  * Check if account has sufficient ETH for gas" >>
  ELSE IF EndsWith(text, "unauthorized")
    THEN << "Suggestions:",
            "  * Check private key configuration",
            "  * Verify account permissions" >>
  ELSE <<>>

\* C16: when the third invocation fails, the error the wrapper throws has the
\* message "[<operation name>] " followed by the text of that failure,
\* followed by the suggestions its keywords select: the check-services list
\* for a connection-refused or network text, the check-balance-and-allowances
\* list for a revert text, the retry-later list for a rate-limit text, and
\* nothing at all for a text without keyword.
C16_FinalMessageAndSuggestions ==
  [][ (pc = "wr_catch" /\ pc' = "wr_thrown") =>
        /\ wrap[RetryLevel].invocations = 3
        /\ exc'.kind = "Error" /\ exc'.name = "Error"
        /\ exc'.message = << "[" \o ContextName(RetryLevel) \o "] " >>
                            \o FailureText(exc)
                            \o ExpectedSuggestions(FailureText(exc)) ]_vars

\* C16 witness: the third failure was a revert and the final error lists the
\* revert suggestions
C16_Witness ==
  /\ pc = "wr_thrown"
  /\ wrap[RetryLevel].invocations = 3
  /\ exc.message[2] = "execution reverted"
  /\ exc.message[Len(exc.message)] = "  * Check account balance and allowances"

\* C16 second witness: a text without keyword, no suggestion list
C16_WitnessNoKeyword ==
  /\ pc = "wr_thrown"
  /\ exc.message = <<"[SDK Initialization] ", "boom">>

(***************************************************************************)
(* Which settings are required (SpecConfig).                               *)
(***************************************************************************)
\* createConfig has returned the settings object, resp. has thrown
SettingsProduced == pc = "cfg_ok"

StartupAborted == pc = "cfg_failed"

Unset(v) == v \in {"missing", "empty"}

\* C17 (as stated): when the relay URL, the fork URL or the signing key is
\* missing, startup aborts and no settings object is produced.
C17_ThreeRequired ==
  (pc \in {"cfg_ok", "cfg_failed"}
     /\ \E v \in {"MEE_NODE_URL", "ETH_MAINNET_RPC_URL", "TEST_PRIVATE_KEY"} :
          env[v] = "missing")
    => StartupAborted

\* C17 (amended): the fork URL and the signing key are required: when either
\* is unset, startup aborts with the enumerated list, which has an "is
\* required" entry for each unset one, and no settings object is produced.
\* The relay URL is optional: left unset it is the default, and with
\* everything else in order the settings object is produced.
C17_ForkUrlAndKeyRequired ==
  /\ (LoadDone /\ (Unset(env.ETH_MAINNET_RPC_URL) \/ Unset(env.TEST_PRIVATE_KEY))) =>
       /\ StartupAborted
       /\ exc.message[1] = "Environment validation failed:"
       /\ Unset(env.ETH_MAINNET_RPC_URL)
            <=> "ETH_MAINNET_RPC_URL is required" \in Fragments(exc.message)
       /\ Unset(env.TEST_PRIVATE_KEY)
            <=> "TEST_PRIVATE_KEY is required" \in Fragments(exc.message)
  /\ SettingsProduced =>
       /\ env.ETH_MAINNET_RPC_URL = "valid" /\ env.TEST_PRIVATE_KEY = "valid"
       /\ env.MEE_NODE_URL \in {"missing", "valid"}
       /\ sdk.config.meeNodeUrl = "valid"
       /\ exc = NoErr
  /\ (pc \in {"cfg_ok", "cfg_failed"} /\ env.MEE_NODE_URL = "missing"
        /\ \A v \in AllVars \ {"MEE_NODE_URL"} : env[v] = "valid")
       => SettingsProduced

\* C17 witness: startup aborted with both required variables unset
C17_Witness ==
  /\ StartupAborted
  /\ env.ETH_MAINNET_RPC_URL = "missing"
  /\ env.TEST_PRIVATE_KEY = "missing"
  /\ exc.message[2] = "ETH_MAINNET_RPC_URL is required"
  /\ exc.message[3] = "TEST_PRIVATE_KEY is required"

\* C17 second witness: settings produced without a relay URL
C17_WitnessDefaultRelay ==
  /\ SettingsProduced
  /\ env.MEE_NODE_URL = "missing"

(***************************************************************************)
(* The order of the stages of executeFusionAaveDemo.                       *)
(***************************************************************************)
\* the stage a statement belongs to: 1 load config, 2 connect to the chain,
\* 3 initialize account and relay client, 4 ensure funds, 5 fused
\* transaction, 6 report; 0 for main and the catch clauses of the wrappers
StageOf(p) ==
  CASE p = "init_config"                                             -> 1
    [] p \in {"init_network", "init_balance"}                        -> 2
    [] p \in {"init_account", "init_fetch", "init_mee", "init_usdc"} -> 3
    [] p \in {"demo_snap1", "ens_read1", "ens_read2", "ens_read3"}   -> 4
    [] p \in FundBodyPcs                                             -> 4
    [] p \in {"demo_snap2"} \cup TxPcs                               -> 5
    [] p \in {"demo_snap3", "main_return"}                           -> 6
    [] OTHER                                                         -> 0

\* C18 (as stated): no stage is executed more than once per run: the
\* configuration is loaded once and the fused transaction is submitted once.
C18_EachStageOnce ==
  /\ relay.executes <= 1
  /\ pc = "init_config" => (wrap["demo"].invocations = 1 /\ wrap["init"].invocations = 1)

\* C18 (amended): a stage is entered only from the stage before it, which
\* ended without an error, or by the retry of a wrapped operation at its first
\* statement; nothing past the loading of the configuration runs on a
\* configuration that failed validation, and the fused transaction is
\* submitted only in the transaction stage of an attempt whose funding
\* assurance has returned and whose quote was answered.
C18_StagesInOrderPerAttempt ==
  [][ /\ (StageOf(pc') # 0 /\ StageOf(pc') # StageOf(pc)) =>
           \/ /\ StageOf(pc) # 0
              /\ StageOf(pc') = StageOf(pc) + 1
              /\ exc = NoErr /\ exc' = NoErr
           \/ pc = "demo_start" /\ pc' = "init_config"
           \/ /\ pc \in {"catch_init", "catch_ensure", "catch_fund"}
              /\ pc' \in {"init_config", "ens_read1", "fund_scan"}
              /\ \E l \in Levels : pc = CatchPc(l) /\ wrap[l].attempt < 3
                                     /\ wrap'[l].attempt = wrap[l].attempt + 1
      /\ StageOf(pc') >= 2 => /\ createConfig(env).ok
                              /\ sdk'.config = createConfig(env).config
      /\ StageOf(pc') >= 4 => sdk'.ready
      /\ pc' = "demo_snap2" =>
           (pc \in {"ens_read1", "ens_read2", "ens_read3", "demo_snap2"} /\ exc' = NoErr)
      /\ relay'.executes # relay.executes =>
           /\ pc = "tx_execute" /\ tx.quoted /\ demo.snapshots = 2
           /\ relay'.executes = relay.executes + 1 ]_vars

\* C18 witness: one attempt went through all six stages
C18_Witness ==
  /\ pc = "main_return"
  /\ demo.snapshots = 3
  /\ relay.executes = 1
  /\ sdk.ready

\* C19: the result a successful run of executeFusionAaveDemo returns has the
\* relay's hash, success = true, the supplied amount, an equal receipt-token
\* amount, the snapshot taken before the fused transaction as beforeBalance
\* and the snapshot taken after it as afterBalance, neither of them the empty
\* placeholder.
C19_ResultCarriesBothSnapshots ==
  pc = "main_return" =>
    /\ demo.transactionResult.hash = tx.hash
    /\ demo.transactionResult.success
    /\ demo.transactionResult.supplyAmount = demo.supplyAmount
    /\ demo.transactionResult.aTokensReceived = demo.supplyAmount
    /\ demo.transactionResult.afterBalance # EmptySnapshot
    /\ demo.transactionResult.afterBalance.usdc >= 0
    /\ demo.transactionResult.beforeBalance # EmptySnapshot
    /\ demo.transactionResult.beforeBalance = demo.beforeBalance

\* the body of ensureSufficientUSDC is inside a call of fundTestAccount
InFundCall == pc \in FundBodyPcs \cup {"catch_fund"}

\* the transfer requests of the running fundTestAccount body
TransferAmounts ==
  { fund.reqLog[i].amount : i \in { j \in DOMAIN fund.reqLog : fund.reqLog[j].op = "transfer" } }

\* C20: in one run of the ensureSufficientUSDC body that read c < t, the first
\* funding request asks for exactly t - c; the second one, made only when the
\* balance read after the first is still below t, asks for exactly t; there is
\* no third one, and a balance still below t after the second ends the body
\* with the InfrastructureError 'Failed to fund account sufficiently'.
C20_RequestsAreDifferenceThenTarget ==
  /\ (InFundCall /\ ens.stage = "first") =>
       /\ ens.currentBalance >= 0 /\ ens.currentBalance < TargetUSDC
       /\ fund.amount = TargetUSDC - ens.currentBalance
       /\ ens.callsFirst = 1 /\ ens.callsSecond = 0
  /\ (InFundCall /\ ens.stage = "second") =>
       /\ ens.newBalance >= 0 /\ ens.newBalance < TargetUSDC
       /\ fund.amount = TargetUSDC
       /\ ens.callsFirst = 1 /\ ens.callsSecond = 1
  /\ InFundCall => (ens.stage \in {"first", "second"} /\ TransferAmounts \subseteq {fund.amount})
  /\ ens.callsFirst + ens.callsSecond <= 2
  /\ (pc \in {"ens_read3", "catch_ensure"} /\ ens.finalBalance >= 0) => ens.callsSecond = 1
  /\ (pc = "catch_ensure" /\ ens.finalBalance >= 0) =>
       /\ ens.finalBalance < TargetUSDC
       /\ exc = InfrastructureError(<<"Failed to fund account sufficiently">>)

\* C20 witness: the second request, for the whole target, is being transferred
C20_Witness ==
  /\ pc = "fund_wait"
  /\ ens.stage = "second"
  /\ ens.currentBalance > 0
  /\ TransferAmounts = {TargetUSDC}

\* C20 witness: the first request, for the difference
C20_WitnessFirst ==
  /\ pc = "fund_wait"
  /\ ens.stage = "first"
  /\ ens.currentBalance = 30000000
  /\ TransferAmounts = {70000000}

\* C20 witness: the balance is still short after the second request
C20_WitnessStillShort ==
  /\ pc = "catch_ensure"
  /\ ens.finalBalance >= 0
  /\ ens.callsSecond = 1

(***************************************************************************)
(* The order of the requests of one fundTestAccount body.                  *)
(***************************************************************************)
\* position of a request in the body: impersonate, set balance, transfer, stop
OpRank(op) ==
  CASE op = "impersonate" -> 1
    [] op = "setBalance"  -> 2
    [] op = "transfer"    -> 3
    [] op = "stop"        -> 4

\* C21: the requests of one transfer attempt are issued in the order
\* impersonate, set native balance, transfer, (wait for the receipt), stop
\* impersonating, each one only after the one before it succeeded; the
\* transfer is issued while the selected donor is impersonated, for that donor
\* and for the requested amount, and the stop of the normal path comes after
\* the confirmed receipt.
C21_RequestsInOrder ==
  LET log == fund.reqLog
  IN /\ \A i \in 1..Len(log) :
          /\ log[i].whale = fund.USDC_WHALE
          /\ log[i].op # "stop" =>
               /\ OpRank(log[i].op) = i
               /\ \A j \in 1..(i - 1) : log[j].ok /\ OpRank(log[j].op) = j
          /\ (log[i].op = "stop" /\ i < Len(log)) => log[i + 1].op = "stop"
          /\ log[i].op = "transfer" =>
               /\ log[i].amount = fund.amount
               /\ log[1] = Request("impersonate", fund.USDC_WHALE, 0, TRUE)
               /\ log[2] = Request("setBalance", fund.USDC_WHALE, 0, TRUE)
     /\ pc = "fund_transfer" =>
          /\ fund.whaleFound
          /\ fund.USDC_WHALE \in impersonated
          /\ Len(log) = 2
     /\ pc = "fund_wait" =>
          /\ log[Len(log)] = Request("transfer", fund.USDC_WHALE, fund.amount, TRUE)
          /\ fund.USDC_WHALE \in impersonated
     /\ pc \in {"fund_verify", "fund_stop"} =>
          /\ fund.receipt = "status1"
          /\ Len(log) = 3
          /\ fund.USDC_WHALE \in impersonated

\* C21 witness: a body that issued all four requests and returned
C21_Witness ==
  /\ pc \in {"ens_read2", "ens_read3"}
  /\ Len(fund.reqLog) = 4
  /\ fund.reqLog[3] = Request("transfer", fund.USDC_WHALE, fund.amount, TRUE)
  /\ fund.reqLog[4] = Request("stop", fund.USDC_WHALE, 0, TRUE)
  /\ fund.receipt = "status1"

(***************************************************************************)
(* initializeBiconomySDK: what a session context rests on.                 *)
(***************************************************************************)
ChainIdMismatch == InfrastructureError(<<"Chain ID mismatch">>)

RelayNotAccessible == InfrastructureError(<<"MEE Node is not accessible">>)

\* C22: the session context exists only when the chain reported the
\* configured chain id and the relay's info endpoint answered OK; an attempt
\* that ends with the chain-id mismatch error has created no signer, smart
\* account or relay client, and one that ends with the relay error has created
\* no relay client.
C22_ContextNeedsChainAndRelay ==
  /\ sdk.ready =>
       /\ createConfig(env).ok
       /\ netChainId = sdk.config.chainId
       /\ relayOk
       /\ sdk.parts = {"provider", "signer", "orchestrator", "meeClient"}
  /\ "signer" \in sdk.parts => netChainId = sdk.config.chainId
  /\ "meeClient" \in sdk.parts => (relayOk /\ {"signer", "orchestrator"} \subseteq sdk.parts)
  /\ (pc = "catch_init" /\ exc = ChainIdMismatch) =>
       /\ netChainId # sdk.config.chainId
       /\ sdk.parts \cap {"signer", "orchestrator", "meeClient"} = {}
       /\ ~sdk.ready
  /\ (pc = "catch_init" /\ exc = RelayNotAccessible) =>
       /\ ~relayOk
       /\ "meeClient" \notin sdk.parts
       /\ ~sdk.ready
  /\ (pc = "catch_init" /\ netChainId # sdk.config.chainId /\ createConfig(env).ok) =>
       exc \in ExtErrors \cup {ChainIdMismatch}
  /\ (pc = "catch_init" /\ ~relayOk /\ "orchestrator" \in sdk.parts) =>
       exc \in ExtErrors \cup {RelayNotAccessible}

\* C22 witness: an attempt ended on the chain-id mismatch
C22_Witness ==
  /\ pc = "catch_init"
  /\ exc = ChainIdMismatch
  /\ sdk.parts = {"provider"}

\* C22 witness: an attempt ended on the relay's answer
C22_WitnessRelay ==
  /\ pc = "catch_init"
  /\ exc = RelayNotAccessible
  /\ sdk.parts = {"provider", "signer", "orchestrator"}

\* C22 witness: the session context was returned
C22_WitnessContext ==
  /\ pc = "demo_snap1"
  /\ sdk.ready

(***************************************************************************)
(* Repetition of effects by the retry wrappers.                            *)
(***************************************************************************)
\* a fused transaction of this run was executed and confirmed: the position
\* in receipt tokens exists
SupplyConfirmed == walletAUsdc > 0

\* C23: in one run the relay executes the fused transaction at most once, and
\* once a fused transaction was executed and confirmed no funding transfer and
\* no further execute request follows, whatever fails afterwards.
C23_FusedTransactionOnce ==
  /\ relay.executes <= 1
  /\ SupplyConfirmed => pc \notin (FundBodyPcs \cup {"tx_quote", "tx_execute"})

\* a second fused transaction was accepted by the relay after the first one
\* had been confirmed, following a second funding round
C23_SecondAfterConfirmed ==
  /\ pc = "tx_receipt"
  /\ relay.executes = 2
  /\ SupplyConfirmed
  /\ walletUsdc >= TargetUSDC

\* C24: executeFusionTransaction returns a result with success = true only for
\* a receipt whose status is SUCCESS or MINED_SUCCESS; a receipt still PENDING
\* or MINING is never reported as a successful transaction.
C24_SuccessOnlyOnTerminalSuccess ==
  demo.transactionResult.success =>
    /\ tx.receipt.transactionStatus \in {"SUCCESS", "MINED_SUCCESS"}
    /\ tx.receipt.transactionStatus \notin {"PENDING", "MINING"}

\* the wallet balance ensureSufficientUSDC read before the fundTestAccount
\* call that is running or has just returned
CallBase == IF ens.stage = "first" THEN ens.currentBalance ELSE ens.newBalance

\* C25: a call of the wrapped fundTestAccount(sdk, amount) that returns has
\* had exactly one transfer confirmed, so the wallet grew by exactly amount;
\* no transfer is issued in a call in which one was already confirmed.
C25_OneConfirmedTransferPerCall ==
  /\ pc = "fund_transfer" => walletUsdc = CallBase
  /\ (pc \in {"ens_read2", "ens_read3"} /\ ens.stage # "none"
        /\ walletUsdc = fund.newBalance) =>
       fund.newBalance = CallBase + fund.amount

\* a call returned after two of its transfers were confirmed
C25_DoubleFunding ==
  /\ pc = "ens_read2"
  /\ fund.xfers = 2
  /\ walletUsdc = ens.currentBalance + 2 * fund.amount

\* the positions of the log at which an impersonation was granted for donor w
GrantsFor(log, w) ==
  { j \in 1..Len(log) : log[j] = Request("impersonate", w, 0, TRUE) }

\* C26 (as stated): a stop-impersonating request is sent only for a donor for
\* which an impersonation was granted earlier in the same attempt; an attempt
\* that fails before the grant sends none.
C26_StopOnlyAfterGrant ==
  \A i \in 1..Len(fund.reqLog) :
     fund.reqLog[i].op = "stop" =>
       \E j \in GrantsFor(fund.reqLog, fund.reqLog[i].whale) : j < i

\* C26 (amended): every attempt that fails sends a stop-impersonating request
\* from its catch clause, for the donor variable as it stands: the selected
\* donor, or the first candidate when none was selected. An attempt that found
\* no donor sends exactly that one request; one whose impersonation request
\* failed sends it right after the failed request. The stop request of the
\* normal path is sent only after the grant, the transfer and its receipt.
C26_CleanupStopsCurrentDonor ==
  LET log == fund.reqLog
  IN /\ \A i \in 1..Len(log) : log[i].op = "stop" => log[i].whale = fund.USDC_WHALE
     /\ pc = "catch_fund" =>
          /\ Len(log) >= 1
          /\ log[Len(log)].op = "stop"
          /\ ~fund.whaleFound =>
               /\ fund.USDC_WHALE = 1
               /\ Len(log) = 1
               /\ GrantsFor(log, 1) = {}
          /\ (fund.whaleFound /\ GrantsFor(log, fund.USDC_WHALE) = {}) =>
               /\ Len(log) = 2
               /\ log[1] = Request("impersonate", fund.USDC_WHALE, 0, FALSE)
     /\ (pc \in {"ens_read2", "ens_read3"} /\ Len(log) > 0) =>
          /\ Len(log) = 4
          /\ log[4] = Request("stop", fund.USDC_WHALE, 0, TRUE)
          /\ GrantsFor(log, fund.USDC_WHALE) = {1}
          /\ fund.receipt = "status1"

\* C26 witness: no donor was found and the catch clause asked to stop
\* impersonating the first candidate
C26_Witness ==
  /\ pc = "catch_fund"
  /\ ~fund.whaleFound
  /\ Len(fund.scan) = NumWhales
  /\ fund.reqLog[1].op = "stop"
  /\ fund.reqLog[1].whale = 1

\* C26 witness: the impersonation request failed and a stop request followed
C26_WitnessRefused ==
  /\ pc = "catch_fund"
  /\ fund.whaleFound
  /\ Len(fund.reqLog) = 2
  /\ ~fund.reqLog[1].ok
  /\ fund.reqLog[2].op = "stop"

(***************************************************************************)
(* What escapes a withErrorHandling closure.                               *)
(***************************************************************************)
\* the step `throw lastError` of closure l
Escapes(l) == pc = CatchPc(l) /\ pc' = CallerCatch(l)

\* C27 (as stated): the error that escapes a wrapped function has the class
\* of the error the wrapped operation raised.
C27_CategoryKept ==
  [][ \A l \in Levels : Escapes(l) => (exc'.kind = exc.kind /\ exc'.name = exc.name) ]_vars

\* C27 (amended): the error that escapes a wrapped function is a plain Error
\* without cause or code, whatever the wrapped operation raised; of the
\* original it keeps only the message text, after the '[name] ' prefix.
C27_EscapedErrorIsPlainError ==
  [][ \A l \in Levels : Escapes(l) =>
        LET m == extractErrorMessage(exc)
        IN /\ exc'.kind = "Error"
           /\ exc'.name = "Error"
           /\ exc'.fields = {}
           /\ exc'.message[1] = ContextOf(l)
           /\ Len(exc'.message) >= 1 + Len(m)
           /\ SubSeq(exc'.message, 2, 1 + Len(m)) = m ]_vars

\* C27 witness: the infrastructure error of the chain-id check reached main
\* as a plain Error
C27_Witness ==
  /\ pc = "catch_main"
  /\ exc.name = "Error"
  /\ exc.message[1] = ContextOf("demo")
  /\ exc.message[2] = ContextOf("init")
  /\ exc.message[3] = "Chain ID mismatch"

\* C27 witness: a transaction error reached main as a plain Error
C27_WitnessTransaction ==
  /\ pc = "catch_main"
  /\ exc.name = "Error"
  /\ exc.message[2] = "Fusion execution failed: "

(***************************************************************************)
(* Termination: every await of the program settles, so the program takes   *)
(* its next step whenever it has one; the foreign spender is not obliged   *)
(* to act.                                                                 *)
(***************************************************************************)
ProgramStep == Next /\ spends' = spends

SpecLive == Init /\ [][Next]_vars /\ WF_vars(ProgramStep)

\* C28: every run reaches process.exit, and in a run the demo body is
\* executed at most 3 times, the body of initializeBiconomySDK at most 9
\* times, the body of ensureSufficientUSDC at most 9 times and the body of
\* fundTestAccount at most 54 times.
C28_TerminatesWithBoundedRetries ==
  /\ [](/\ wrap["demo"].bodies <= MaxAttempts
        /\ wrap["init"].bodies <= MaxAttempts * MaxAttempts
        /\ wrap["ensure"].bodies <= MaxAttempts * MaxAttempts
        /\ wrap["fund"].bodies <= MaxAttempts * MaxAttempts * 2 * MaxAttempts
        /\ wrap["init"].bodies <= MaxAttempts * wrap["demo"].bodies
        /\ wrap["ensure"].bodies <= MaxAttempts * wrap["demo"].bodies
        /\ wrap["fund"].bodies <= 2 * MaxAttempts * wrap["ensure"].bodies)
  /\ <>(pc = "exited" /\ exitCode \in {0, 1})

\* C28 witness: the run ended after 3 executions of the demo body and 9 of the
\* initialization body
C28_Witness ==
  /\ pc = "exited"
  /\ wrap["demo"].bodies = 3
  /\ wrap["init"].bodies = 9

\* C28 witness: the run ended after 27 executions of the transfer body
C28_WitnessTransfers ==
  /\ pc = "exited"
  /\ wrap["ensure"].bodies = 9
  /\ wrap["fund"].bodies = 27

(***************************************************************************)
(* The wallet as this program alone leaves it.                             *)
(***************************************************************************)
\* no actor other than this program has changed the wallet balance
NoForeignSpend == spends = 0

\* C29: when nobody else moves the wallet's funds, the snapshot taken after
\* ensureSufficientUSDC returned shows at least the funding target, so the
\* floor check does not fail, the supply amount is at least half the target
\* and the fused transaction is requested with such an amount.
C29_FundedBalanceReachesTransaction ==
  NoForeignSpend =>
    /\ demo.snapshots >= 2 =>
         /\ demo.beforeBalance.usdc >= TargetUSDC
         /\ ~BelowFloor(demo.beforeBalance.usdc)
    /\ pc \in TxPcs =>
         /\ demo.snapshots = 2
         /\ 2 * demo.supplyAmount >= TargetUSDC
         /\ demo.supplyAmount = HalfOf(demo.beforeBalance.usdc)
    /\ pc = "demo_snap2" => walletUsdc >= TargetUSDC
    /\ pc = "catch_demo" => exc # InsufficientBalanceError

\* C29 witness: the wallet was funded up to the target and the fused
\* transaction is about to be executed for half of it
C29_Witness ==
  /\ NoForeignSpend
  /\ pc = "tx_execute"
  /\ demo.beforeBalance.usdc = TargetUSDC
  /\ demo.supplyAmount = 50000000
  /\ walletAUsdc = 0

(***************************************************************************)
(* What one call of a withErrorHandling closure returns (SpecRetry).       *)
(***************************************************************************)
\* C30: when the wrapped operation first succeeds on invocation k (1..3), the
\* closure returns the value of that invocation, has invoked the operation
\* exactly k times with k - 1 delays, and raises nothing: the failures before
\* it stay in lastError and are dropped. After a failed third invocation it
\* throws with the two delays of the retries behind it and no third one.
C30_ReturnsFirstSuccess ==
  LET w == wrap[RetryLevel]
  IN /\ pc = "wr_returned" =>
          /\ exc = NoErr
          /\ w.invocations \in 1..MaxAttempts
          /\ w.result = w.invocations
          /\ w.attempt = w.invocations
          /\ Len(w.delays) = w.invocations - 1
          /\ w.invocations = 1 <=> w.lastError = NoErr
     /\ pc = "wr_thrown" =>
          /\ exc # NoErr
          /\ exc = w.lastError
          /\ w.result = 0
          /\ w.invocations = MaxAttempts
          /\ w.delays = <<BaseDelay, 2 * BaseDelay>>
     /\ pc \in {"wr_body", "wr_catch"} => w.result = 0

\* C30 witness: the second invocation succeeded after one failure
C30_Witness ==
  /\ pc = "wr_returned"
  /\ wrap[RetryLevel].result = 2
  /\ wrap[RetryLevel].lastError # NoErr
  /\ wrap[RetryLevel].delays = <<BaseDelay>>

\* C30 witness: the third invocation succeeded
C30_WitnessThird ==
  /\ pc = "wr_returned"
  /\ wrap[RetryLevel].result = 3

\* C30 witness: the third invocation failed
C30_WitnessThrown ==
  /\ pc = "wr_thrown"
  /\ Len(wrap[RetryLevel].delays) = 2

====
